---- MODULE Spec2Model ----
\* The draw-command recorder of bevy_nannou_draw: the shared session State,
\* the Draw handles over it, the Drawing builders, and the Indirect and
\* Instanced markers that capture a builder's slot.
EXTENDS Integers, Sequences, FiniteSets, TLC

\* ---------------------------------------------------------------- bounds
\* Number of primitive-constructor calls (Draw::a) in one run.
MaxPrims == 3
\* Number of Draw handles of the session (root included).
MaxHandles == 2
\* Number of markers (Indirect or Instanced) alive at the same time.
MaxMarkers == 1
\* Number of threads that call Draw::a at the same time.
MaxThreads == 2
\* Number of material ids Uuid::new_v4() hands out in one run.
MaxUuids == 3
\* Largest scale and largest offset of a handle's transform.
MaxCoord == 2
\* Constructor calls begun before the threads of the lock protocol stop
\* beginning new ones.
MaxProtocolPrims == 1
\* Fields of the model handed to run_script.
MaxFields == 2

\* ------------------------------------------------------------ input sets
\* Handles of shader storage buffers a caller may pass to Indirect::buffer.
Buffers == {"ssbo1", "ssbo2"}
\* Instance ranges a caller may pass to Instanced::range.
Ranges == {"range1"}
\* Material values a caller may bind with Draw::material.
MaterialValues == {"default"}
\* Transform deltas a caller may pass to Draw::transform.  A Mat4 is modelled
\* by the affine map x -> s*x + t, written <<s, t>>: translate(1), and the
\* identity.
Deltas == {<<1, 0>>, <<1, 1>>}

\* ------------------------------------------------------- Option<T> values
None == <<>>
Some(x) == <<x>>
IsSome(o) == o # None
Unwrap(o) == o[1]

\* ------------------------------------------------------------ transforms
\* Mat4::IDENTITY
IDENTITY == <<1, 0>>
\* A multiplication that loses its right operand.
MatMul_left(a, b) == a
\* A multiplication with its operands exchanged (b * a).
MatMul_swapped(a, b) == <<b[1] * a[1], b[1] * a[2] + b[2]>>
\* Mat4 multiplication a * b (apply b first, then a).
MatMul(a, b) == <<a[1] * b[1], a[1] * b[2] + a[2]>>
\* DrawContext::default()
DefaultContext == [transform |-> IDENTITY]

\* ---------------------------------------------------------- DrawCommand
\* A command is a tuple whose first element is the variant.
PrimitiveCmd(p) == <<"Primitive", p>>
InstancedCmd(p, r) == <<"Instanced", p, r>>
IndirectCmd(p, ib, vb) == <<"Indirect", p, ib, vb>>
ContextCmd(c) == <<"Context", c>>
MaterialCmd(id) == <<"Material", id>>
Variant(cmd) == cmd[1]
IsTerminal(cmd) == Variant(cmd) \in {"Primitive", "Instanced", "Indirect"}

\* ------------------------------------------------------------- variables
\* A primitive value is the number of the constructor call that made it, so
\* that two calls are told apart in the log.  `instanced` is the set
\* State::finish_drawing consults; indirect.rs names it ignored_drawings.
VARIABLES
    state,       \* the shared State behind Arc<RwLock<State>>
    handles,     \* the Draw handles: handle id -> [context, material]
    builders,    \* live Drawing builders: builder id -> [draw, index]
    indirects,   \* live Indirect markers: marker id -> marker fields
    instancers,  \* live Instanced markers: marker id -> marker fields
    next_prim,   \* identity given to the next primitive value
    next_uuid,   \* the next value of Uuid::new_v4()
    panicked,    \* TRUE once a call has panicked (the unwrap on a missing entry)
    returned,    \* Some(sequence) when the latest step was a drain_commands, else None
    calls,       \* primitives constructed since the latest drain or reset
    inst_captured, \* primitives an Instanced marker captured since the latest drain
    streak,      \* consecutive drain_commands calls just made (counted up to 2)
    lock,        \* the thread holding the write lock of the State, 0 when it is free
    pc,          \* thread -> where it stands inside a call of Draw::a
    type_registry, \* reflect::TypeRegistry: type -> the data table of its registration
    panic_message, \* Some(message) once a call on the registry has panicked
    model,       \* the model handed to run_script: its fields, in order
    js_context,  \* TRUE while the world holds the JsContext resource
    outcome,     \* Some(path) once run_script has returned by that path
    desc,        \* the wgpu::SamplerDescriptor handed to sampler_filtering
    filtering,   \* Some(result) once sampler_filtering has returned
    world,       \* what the render world resolves for the phase item being drawn
    pass,        \* the calls made on the TrackedRenderPass, in order
    result       \* the RenderCommandResult of each render command run for the item

draw_vars == <<state, handles, builders, indirects, instancers, next_prim,
          next_uuid, panicked, returned, calls, inst_captured, streak,
          lock, pc>>

\* The registry of bevy_nannou_script_js, the sampler of bevy_nannou_wgpu and
\* the render commands of draw/indirect.rs.
run_vars == <<model, js_context, outcome>>
script_vars == <<type_registry, panic_message, run_vars>>
wgpu_vars == <<desc, filtering>>
render_vars == <<world, pass, result>>
plugin_vars == <<script_vars, wgpu_vars, render_vars>>

vars == <<draw_vars, plugin_vars>>

\* The threads of the concurrent specification.
Threads == 1..MaxThreads
\* A thread that is not inside a call.
Idle == [at |-> "idle", draw |-> 0, entry_log |-> <<>>, pushed |-> <<>>]

\* ------------------------------------------------------------- map helpers
\* HashMap::insert
MapInsert(m, k, v) == [x \in DOMAIN m \cup {k} |-> IF x = k THEN v ELSE m[x]]
\* HashMap::remove (the map without the key)
MapRemove(m, k) == [x \in DOMAIN m \ {k} |-> m[x]]
EmptyMap == [x \in {} |-> 0]

\* All orders in which the keys of a set can be visited.
Orders(S) == {o \in [1..Cardinality(S) -> S] : \A i, j \in 1..Cardinality(S) : o[i] = o[j] => i = j}

\* --------------------------------------------------------- State methods
\* State::default
DefaultState ==
    [last_material |-> None,
     last_draw_context |-> None,
     background_color |-> None,
     drawing |-> EmptyMap,
     materials |-> EmptyMap,
     instanced |-> {},
     draw_commands |-> <<>>]

\* An insert_draw_command that pushes the command instead of writing its slot.
insert_draw_command_push(s, index, prim) ==
    [s EXCEPT !.draw_commands = Append(@, Some(PrimitiveCmd(prim)))]

\* State::insert_draw_command: write Primitive(prim) at the slot, if it exists.
\* Slot indices are 0-based as in the source; sequence positions are 1-based.
insert_draw_command(s, index, prim) ==
    IF index + 1 \in 1..Len(s.draw_commands)
    THEN [s EXCEPT !.draw_commands[index + 1] = Some(PrimitiveCmd(prim))]
    ELSE s

\* A finish_drawing that removes the entry without writing the command.
finish_drawing_forget(s, index) ==
    IF index \in s.instanced
    THEN s
    ELSE [s EXCEPT !.drawing = MapRemove(s.drawing, index)]

\* A finish_drawing that commits a default primitive (0) when the entry is
\* gone (unwrap_or_default in place of the if let).
finish_drawing_default(s, index) ==
    IF index \in s.instanced
    THEN s
    ELSE IF index \in DOMAIN s.drawing
         THEN insert_draw_command([s EXCEPT !.drawing = MapRemove(s.drawing, index)],
                                  index, s.drawing[index])
         ELSE insert_draw_command(s, index, 0)

\* State::finish_drawing
finish_drawing(s, index) ==
    IF index \in s.instanced
    THEN s
    ELSE IF index \in DOMAIN s.drawing
         THEN insert_draw_command([s EXCEPT !.drawing = MapRemove(s.drawing, index)],
                                  index, s.drawing[index])
         ELSE s

\* The loop of State::finish_remaining_drawings over the drained table, the
\* entries visited in the order `order`.
RECURSIVE finish_each(_, _, _)
finish_each(s, table, order) ==
    IF order = <<>>
    THEN s
    ELSE finish_each(insert_draw_command(s, Head(order), table[Head(order)]),
                     table, Tail(order))

\* A finish_remaining_drawings whose final swap puts the entries back.
State_finish_remaining_drawings_restore(s, order) ==
    [finish_each([s EXCEPT !.drawing = EmptyMap], s.drawing, order)
        EXCEPT !.drawing = s.drawing]

\* State::finish_remaining_drawings
State_finish_remaining_drawings(s, order) ==
    [finish_each([s EXCEPT !.drawing = EmptyMap], s.drawing, order)
        EXCEPT !.drawing = EmptyMap]

\* --------------------------------------------------------- Draw methods
\* A constructor that pushes the Material command on every call.
a_state_always_material(s, context, material, prim) ==
    LET s1 == IF s.last_draw_context # Some(context)
              THEN [s EXCEPT !.draw_commands = Append(@, Some(ContextCmd(context))),
                             !.last_draw_context = Some(context)]
              ELSE s
        s2 == [s1 EXCEPT !.draw_commands = Append(@, Some(MaterialCmd(material))),
                         !.last_material = Some(material)]
        index == Len(s2.draw_commands)
    IN [s2 EXCEPT !.draw_commands = Append(@, None),
                  !.drawing = MapInsert(@, index, prim)]

\* A constructor that takes an unset last_draw_context for the default
\* context, and so pushes no Context command for it.
a_state_unset_is_default(s, context, material, prim) ==
    LET s1 == IF s.last_draw_context # Some(context)
                 /\ ~(s.last_draw_context = None /\ context = DefaultContext)
              THEN [s EXCEPT !.draw_commands = Append(@, Some(ContextCmd(context))),
                             !.last_draw_context = Some(context)]
              ELSE s
        s2 == IF s1.last_material # Some(material)
              THEN [s1 EXCEPT !.draw_commands = Append(@, Some(MaterialCmd(material))),
                              !.last_material = Some(material)]
              ELSE s1
        index == Len(s2.draw_commands)
    IN [s2 EXCEPT !.draw_commands = Append(@, None),
                  !.drawing = MapInsert(@, index, prim)]

\* The critical section of Draw::a: the change-detection commands, then the
\* placeholder and the in-progress entry.
a_state(s, context, material, prim) ==
    LET s1 == IF s.last_draw_context # Some(context)
              THEN [s EXCEPT !.draw_commands = Append(@, Some(ContextCmd(context))),
                             !.last_draw_context = Some(context)]
              ELSE s
        s2 == IF s1.last_material # Some(material)
              THEN [s1 EXCEPT !.draw_commands = Append(@, Some(MaterialCmd(material))),
                              !.last_material = Some(material)]
              ELSE s1
        index == Len(s2.draw_commands)
    IN [s2 EXCEPT !.draw_commands = Append(@, None),
                  !.drawing = MapInsert(@, index, prim)]

\* The slot index Draw::a hands to the builder.
a_index(s, context, material) ==
    Len(s.draw_commands)
    + (IF s.last_draw_context # Some(context) THEN 1 ELSE 0)
    + (IF s.last_material # Some(material) THEN 1 ELSE 0)

\* A finish_remaining_drawings that pushes the Material command but does not
\* remember it in last_material.
Draw_finish_remaining_drawings_forget(s, material, order) ==
    LET s1 == IF s.last_material # Some(material)
              THEN [s EXCEPT !.draw_commands = Append(@, Some(MaterialCmd(material)))]
              ELSE s
    IN State_finish_remaining_drawings(s1, order)

\* A finish_remaining_drawings that pushes the Material command on every call.
Draw_finish_remaining_drawings_always(s, material, order) ==
    State_finish_remaining_drawings(
        [s EXCEPT !.draw_commands = Append(@, Some(MaterialCmd(material))),
                  !.last_material = Some(material)], order)

\* A finish_remaining_drawings that also drops every material but the
\* handle's own.
Draw_finish_remaining_drawings_purge(s, material, order) ==
    LET s1 == IF s.last_material # Some(material)
              THEN [s EXCEPT !.draw_commands = Append(@, Some(MaterialCmd(material))),
                             !.last_material = Some(material)]
              ELSE s
        s2 == State_finish_remaining_drawings(s1, order)
    IN [s2 EXCEPT !.materials = [id \in DOMAIN s.materials \cap {material} |-> s.materials[id]]]

\* A finish_remaining_drawings that also flushes a context before the material.
Draw_finish_remaining_drawings_context(s, material, order) ==
    LET s0 == [s EXCEPT !.draw_commands = Append(@, Some(ContextCmd(DefaultContext))),
                        !.last_draw_context = Some(DefaultContext)]
        s1 == IF s0.last_material # Some(material)
              THEN [s0 EXCEPT !.draw_commands = Append(@, Some(MaterialCmd(material))),
                              !.last_material = Some(material)]
              ELSE s0
    IN State_finish_remaining_drawings(s1, order)

\* Draw::finish_remaining_drawings
Draw_finish_remaining_drawings(s, material, order) ==
    LET s1 == IF s.last_material # Some(material)
              THEN [s EXCEPT !.draw_commands = Append(@, Some(MaterialCmd(material))),
                             !.last_material = Some(material)]
              ELSE s
    IN State_finish_remaining_drawings(s1, order)

\* cmds.into_iter().filter_map(|opt| opt) of Draw::drain_commands
RECURSIVE filter_map(_)
filter_map(cmds) ==
    IF cmds = <<>>
    THEN <<>>
    ELSE IF IsSome(Head(cmds))
         THEN <<Unwrap(Head(cmds))>> \o filter_map(Tail(cmds))
         ELSE filter_map(Tail(cmds))

\* A commit that pushes the Indirect command but leaves the entry in `drawing`.
insert_indirect_draw_command_keep(s, index, indirect_buffer, vertex_buffer) ==
    [s EXCEPT !.draw_commands = Append(@, Some(IndirectCmd(s.drawing[index],
                                                           indirect_buffer,
                                                           vertex_buffer)))]

\* Indirect::insert_indirect_draw_command, for an index that is in `drawing`.
insert_indirect_draw_command(s, index, indirect_buffer, vertex_buffer) ==
    [s EXCEPT !.drawing = MapRemove(@, index),
              !.draw_commands = Append(@, Some(IndirectCmd(s.drawing[index],
                                                           indirect_buffer,
                                                           vertex_buffer)))]

\* The commit of an Instanced marker, for an index that is in `drawing`:
\* the entry leaves `drawing` and the Instanced command takes the slot.
insert_instanced_draw_command(s, index, range) ==
    LET s1 == [s EXCEPT !.drawing = MapRemove(@, index)]
    IN IF index + 1 \in 1..Len(s.draw_commands)
       THEN [s1 EXCEPT !.draw_commands[index + 1] = Some(InstancedCmd(s.drawing[index], range))]
       ELSE s1

\* ----------------------------------------------------------------- Init
\* Draw::new: a default State holding the default material, and the root
\* handle with the identity context.
DrawInit ==
    /\ state = [DefaultState EXCEPT !.materials = MapInsert(EmptyMap, 1, "default")]
    /\ handles = <<[context |-> DefaultContext, material |-> 1]>>
    /\ builders = EmptyMap
    /\ indirects = EmptyMap
    /\ instancers = EmptyMap
    /\ next_prim = 1
    /\ next_uuid = 2
    /\ panicked = FALSE
    /\ returned = None
    /\ calls = <<>>
    /\ inst_captured = {}
    /\ streak = 0
    /\ lock = 0
    /\ pc = [t \in Threads |-> Idle]

\* A reflected value: [kind, type_id, value].  The value of a Struct is the
\* sequence of its fields, each [name, field]; the value of a Value is the
\* Rust value itself.
Struct(type_id, fields) == [kind |-> "Struct", type_id |-> type_id, value |-> fields]
Value(type_id, v) == [kind |-> "Value", type_id |-> type_id, value |-> v]

\* TypeRegistry::empty(), no panic, an empty model and no JsContext.
ScriptIdle ==
    /\ type_registry = EmptyMap
    /\ panic_message = None
    /\ model = Struct("Model", <<>>)
    /\ js_context = FALSE
    /\ outcome = None

\* wgpu::SamplerDescriptor::default(), not yet classified.
SamplerIdle ==
    /\ desc = [mag_filter |-> "Nearest", min_filter |-> "Nearest",
               mipmap_filter |-> "Nearest",
               address_mode_u |-> "ClampToEdge", address_mode_v |-> "ClampToEdge"]
    /\ filtering = None

\* A phase item for which nothing resolves, and no render command run.
RenderIdle ==
    /\ world = [mesh_instance |-> FALSE, gpu_mesh |-> None, item_q |-> None,
                ssbos |-> {}, vertex_slice |-> FALSE, index_slice |-> FALSE,
                instance |-> FALSE, model |-> FALSE]
    /\ pass = <<>>
    /\ result = <<>>

Init ==
    /\ DrawInit
    /\ ScriptIdle
    /\ SamplerIdle
    /\ RenderIdle

HandleIds == DOMAIN handles
\* -------------------------------------------------------------- actions
\* Draw::a (ellipse, rect, ...): reserve a slot and return its builder.
A(h) ==
    /\ ~panicked
    /\ next_prim <= MaxPrims
    /\ LET context == handles[h].context
           material == handles[h].material
       IN /\ state' = a_state(state, context, material, next_prim)
          /\ builders' = MapInsert(builders, next_prim,
                                   [draw |-> h,
                                    index |-> a_index(state, context, material)])
    /\ next_prim' = next_prim + 1
    /\ calls' = Append(calls, next_prim)
    /\ returned' = None
    /\ streak' = 0
    /\ UNCHANGED <<lock, pc>>
    /\ UNCHANGED <<handles, indirects, instancers, next_uuid, panicked,
                   inst_captured>>
    /\ UNCHANGED plugin_vars

\* The scope exit of a Drawing builder: State::finish_drawing on its index.
DrawingDrop(b) ==
    /\ ~panicked
    /\ b \in DOMAIN builders
    /\ state' = finish_drawing(state, builders[b].index)
    /\ builders' = MapRemove(builders, b)
    /\ returned' = None
    /\ streak' = 0
    /\ UNCHANGED <<lock, pc>>
    /\ UNCHANGED <<handles, indirects, instancers, next_prim, next_uuid,
                   panicked, calls, inst_captured>>
    /\ UNCHANGED plugin_vars

\* Draw::drain_commands
DrainCommands(h) ==
    /\ ~panicked
    /\ \E order \in Orders(DOMAIN state.drawing) :
          LET s1 == Draw_finish_remaining_drawings(state, handles[h].material, order)
          IN /\ state' = [s1 EXCEPT !.draw_commands = <<>>]
             /\ returned' = Some(filter_map(s1.draw_commands))
    /\ calls' = <<>>
    /\ inst_captured' = {}
    /\ streak' = IF streak < 2 THEN streak + 1 ELSE 2
    /\ UNCHANGED <<lock, pc>>
    /\ UNCHANGED <<handles, builders, indirects, instancers, next_prim,
                   next_uuid, panicked>>
    /\ UNCHANGED plugin_vars

\* The smallest marker id that is not in use.
FreeId(used, max) == CHOOSE m \in (1..max) \ used : \A n \in (1..max) \ used : m <= n

\* indirect::new: a marker with nothing captured.
IndirectNew(h) ==
    /\ ~panicked
    /\ Cardinality(DOMAIN indirects) + Cardinality(DOMAIN instancers) < MaxMarkers
    /\ indirects' = MapInsert(indirects, FreeId(DOMAIN indirects, MaxMarkers),
                              [primitive_index |-> None,
                               indirect_buffer |-> None,
                               vertex_buffer |-> None,
                               captured |-> None])
    /\ returned' = None
    /\ streak' = 0
    /\ UNCHANGED <<lock, pc>>
    /\ UNCHANGED <<state, handles, builders, instancers, next_prim, next_uuid,
                   panicked, calls, inst_captured>>
    /\ UNCHANGED plugin_vars

\* Indirect::primitive: the index joins the set finish_drawing consults
\* (ignored_drawings in indirect.rs, `instanced` in State), the marker
\* remembers it, and the builder passed by value is dropped on return.
\* `captured` remembers which primitive the builder was building.
IndirectPrimitive(m, b) ==
    /\ ~panicked
    /\ m \in DOMAIN indirects
    /\ b \in DOMAIN builders
    /\ LET index == builders[b].index
       IN /\ state' = finish_drawing([state EXCEPT !.instanced = @ \cup {index}], index)
          /\ indirects' = [indirects EXCEPT ![m].primitive_index = Some(index),
                                            ![m].captured = Some(b)]
    /\ builders' = MapRemove(builders, b)
    /\ returned' = None
    /\ streak' = 0
    /\ UNCHANGED <<lock, pc>>
    /\ UNCHANGED <<handles, instancers, next_prim, next_uuid, panicked,
                   calls, inst_captured>>
    /\ UNCHANGED plugin_vars

\* Indirect::buffer
IndirectBuffer(m, ssbo) ==
    /\ ~panicked
    /\ m \in DOMAIN indirects
    /\ indirects' = [indirects EXCEPT ![m].indirect_buffer = Some(ssbo)]
    /\ returned' = None
    /\ streak' = 0
    /\ UNCHANGED <<lock, pc>>
    /\ UNCHANGED <<state, handles, builders, instancers, next_prim, next_uuid,
                   panicked, calls, inst_captured>>
    /\ UNCHANGED plugin_vars

\* impl Drop for Indirect: commit when both the index and the args buffer are
\* set, do nothing otherwise.  The unwrap in insert_indirect_draw_command
\* panics when the index is no longer in `drawing`.
IndirectDrop(m) ==
    /\ ~panicked
    /\ m \in DOMAIN indirects
    /\ LET mk == indirects[m]
       IN IF IsSome(mk.primitive_index) /\ IsSome(mk.indirect_buffer)
          THEN IF Unwrap(mk.primitive_index) \in DOMAIN state.drawing
               THEN /\ state' = insert_indirect_draw_command(state,
                                    Unwrap(mk.primitive_index),
                                    Unwrap(mk.indirect_buffer),
                                    mk.vertex_buffer)
                    /\ panicked' = FALSE
               ELSE /\ state' = state
                    /\ panicked' = TRUE
          ELSE /\ state' = state
               /\ panicked' = FALSE
    /\ indirects' = MapRemove(indirects, m)
    /\ returned' = None
    /\ streak' = 0
    /\ UNCHANGED <<lock, pc>>
    /\ UNCHANGED <<handles, builders, instancers, next_prim, next_uuid,
                   calls, inst_captured>>
    /\ UNCHANGED plugin_vars

\* draw.instanced().primitive(drawing).range(r): mark the builder's slot
\* instanced and keep the marker; the builder passed by value is dropped.
InstancedAttach(h, b, r) ==
    /\ ~panicked
    /\ Cardinality(DOMAIN indirects) + Cardinality(DOMAIN instancers) < MaxMarkers
    /\ b \in DOMAIN builders
    /\ LET index == builders[b].index
       IN /\ state' = finish_drawing([state EXCEPT !.instanced = @ \cup {index}], index)
          /\ instancers' = MapInsert(instancers, FreeId(DOMAIN instancers, MaxMarkers),
                                     [primitive_index |-> Some(index),
                                      range |-> Some(r)])
    /\ builders' = MapRemove(builders, b)
    /\ inst_captured' = inst_captured \cup {b}
    /\ returned' = None
    /\ streak' = 0
    /\ UNCHANGED <<lock, pc>>
    /\ UNCHANGED <<handles, indirects, next_prim, next_uuid, panicked, calls>>
    /\ UNCHANGED plugin_vars

\* The scope exit of an Instanced marker: commit the captured primitive when
\* it is still in progress.
InstancedDrop(m) ==
    /\ ~panicked
    /\ m \in DOMAIN instancers
    /\ LET mk == instancers[m]
       IN IF /\ IsSome(mk.primitive_index)
             /\ IsSome(mk.range)
             /\ Unwrap(mk.primitive_index) \in DOMAIN state.drawing
          THEN state' = insert_instanced_draw_command(state,
                            Unwrap(mk.primitive_index), Unwrap(mk.range))
          ELSE state' = state
    /\ instancers' = MapRemove(instancers, m)
    /\ returned' = None
    /\ streak' = 0
    /\ UNCHANGED <<lock, pc>>
    /\ UNCHANGED <<handles, builders, indirects, next_prim, next_uuid,
                   panicked, calls, inst_captured>>
    /\ UNCHANGED plugin_vars

\* Draw::transform (translate, scale, rotate, ...): a new handle whose
\* context is the parent's transform times the delta.
Transform(h, transform_matrix) ==
    /\ ~panicked
    /\ Len(handles) < MaxHandles
    /\ handles' = Append(handles,
                         [context |-> [transform |-> MatMul(handles[h].context.transform,
                                                            transform_matrix)],
                          material |-> handles[h].material])
    /\ returned' = None
    /\ streak' = 0
    /\ UNCHANGED <<lock, pc>>
    /\ UNCHANGED <<state, builders, indirects, instancers, next_prim,
                   next_uuid, panicked, calls, inst_captured>>
    /\ UNCHANGED plugin_vars

\* A material() that binds the value under the parent's id.
Material_reuse(h, material) ==
    /\ ~panicked
    /\ Len(handles) < MaxHandles
    /\ state' = [state EXCEPT !.materials = MapInsert(@, handles[h].material, material)]
    /\ handles' = Append(handles,
                         [context |-> [transform |-> handles[h].context.transform],
                          material |-> handles[h].material])
    /\ next_uuid' = next_uuid + 1
    /\ returned' = None
    /\ streak' = 0
    /\ UNCHANGED <<lock, pc>>
    /\ UNCHANGED <<builders, indirects, instancers, next_prim, panicked,
                   calls, inst_captured>>
    /\ UNCHANGED plugin_vars

\* A material() that also selects the new material as the last one used.
Material_select(h, material) ==
    /\ ~panicked
    /\ Len(handles) < MaxHandles
    /\ state' = [state EXCEPT !.materials = MapInsert(@, next_uuid, material),
                              !.last_material = Some(next_uuid)]
    /\ handles' = Append(handles,
                         [context |-> [transform |-> handles[h].context.transform],
                          material |-> next_uuid])
    /\ next_uuid' = next_uuid + 1
    /\ returned' = None
    /\ streak' = 0
    /\ UNCHANGED <<lock, pc>>
    /\ UNCHANGED <<builders, indirects, instancers, next_prim, panicked,
                   calls, inst_captured>>
    /\ UNCHANGED plugin_vars

\* Draw::material: a new handle bound to a fresh material id.
Material(h, material) ==
    /\ ~panicked
    /\ Len(handles) < MaxHandles
    /\ state' = [state EXCEPT !.materials = MapInsert(@, next_uuid, material)]
    /\ handles' = Append(handles,
                         [context |-> [transform |-> handles[h].context.transform],
                          material |-> next_uuid])
    /\ next_uuid' = next_uuid + 1
    /\ returned' = None
    /\ streak' = 0
    /\ UNCHANGED <<lock, pc>>
    /\ UNCHANGED <<builders, indirects, instancers, next_prim, panicked,
                   calls, inst_captured>>
    /\ UNCHANGED plugin_vars

Next ==
    \/ \E h \in HandleIds : A(h)
    \/ \E b \in DOMAIN builders : DrawingDrop(b)
    \/ \E h \in HandleIds : DrainCommands(h)
    \/ \E h \in HandleIds : IndirectNew(h)
    \/ \E m \in DOMAIN indirects, b \in DOMAIN builders : IndirectPrimitive(m, b)
    \/ \E m \in DOMAIN indirects, ssbo \in Buffers : IndirectBuffer(m, ssbo)
    \/ \E m \in DOMAIN indirects : IndirectDrop(m)
    \/ \E h \in HandleIds, b \in DOMAIN builders, r \in Ranges : InstancedAttach(h, b, r)
    \/ \E m \in DOMAIN instancers : InstancedDrop(m)
    \/ \E h \in HandleIds, d \in Deltas : Transform(h, d)
    \/ \E h \in HandleIds, v \in MaterialValues : Material(h, v)

Spec == Init /\ [][Next]_vars

\* ------------------------------------------------- reset and handle scope
\* Material values a caller may bind in the session specification.
BoundValues == {"default", "custom"}
\* Colours a caller may request as the background.
Colors == {"red"}

\* State::reset.  `instanced` is not among the fields it clears.
State_reset(s) ==
    [s EXCEPT !.last_material = None,
              !.last_draw_context = None,
              !.background_color = None,
              !.drawing = EmptyMap,
              !.materials = EmptyMap,
              !.draw_commands = <<>>]

\* A reset that keeps the materials table.
Draw_reset_keep_materials(s, material_id) ==
    LET r == State_reset(s)
    IN [r EXCEPT !.materials = MapInsert(s.materials, material_id, "default")]

\* The State after Draw::reset: State::reset, then insert_default_material
\* binds M::default() under the fresh id material_id.
Draw_reset(s, material_id) ==
    [State_reset(s) EXCEPT !.materials = MapInsert(@, material_id, "default")]

\* Draw::reset(&mut self): no builder borrows the handle (and no marker is
\* alive); the handle takes the id of the new default material.
Reset(h) ==
    /\ ~panicked
    /\ next_uuid <= MaxUuids
    /\ \A b \in DOMAIN builders : builders[b].draw # h
    /\ DOMAIN indirects = {} /\ DOMAIN instancers = {}
    /\ state' = Draw_reset(state, next_uuid)
    /\ handles' = [handles EXCEPT ![h].material = next_uuid]
    /\ next_uuid' = next_uuid + 1
    /\ calls' = <<>>
    /\ inst_captured' = {}
    /\ returned' = None
    /\ streak' = 0
    /\ UNCHANGED <<lock, pc>>
    /\ UNCHANGED <<builders, indirects, instancers, next_prim, panicked>>
    /\ UNCHANGED plugin_vars

\* The newest derived handle goes out of scope; nothing borrows it.
DrawDrop(h) ==
    /\ ~panicked
    /\ h = Len(handles)
    /\ h > 1
    /\ \A b \in DOMAIN builders : builders[b].draw # h
    /\ DOMAIN indirects = {} /\ DOMAIN instancers = {}
    /\ handles' = SubSeq(handles, 1, h - 1)
    /\ returned' = None
    /\ streak' = 0
    /\ UNCHANGED <<lock, pc>>
    /\ UNCHANGED <<state, builders, indirects, instancers, next_prim,
                   next_uuid, panicked, calls, inst_captured>>
    /\ UNCHANGED plugin_vars

\* draw.background().color(c): the pending clear request of the frame.
Background(h, color) ==
    /\ ~panicked
    /\ state' = [state EXCEPT !.background_color = Some(color)]
    /\ returned' = None
    /\ streak' = 0
    /\ UNCHANGED <<lock, pc>>
    /\ UNCHANGED <<handles, builders, indirects, instancers, next_prim,
                   next_uuid, panicked, calls, inst_captured>>
    /\ UNCHANGED plugin_vars

\* The session without markers: recording, draining, deriving and dropping
\* handles, binding materials and resetting.
NextSession ==
    \/ \E h \in HandleIds : A(h)
    \/ \E b \in DOMAIN builders : DrawingDrop(b)
    \/ \E h \in HandleIds : DrainCommands(h)
    \/ \E h \in HandleIds, d \in Deltas : Transform(h, d)
    \/ \E h \in HandleIds, v \in BoundValues : next_uuid <= MaxUuids /\ Material(h, v)
    \/ \E h \in HandleIds : DrawDrop(h)
    \/ \E h \in HandleIds, c \in Colors : Background(h, c)
    \/ \E h \in HandleIds : Reset(h)

SpecSession == Init /\ [][NextSession]_vars

\* ------------------------------------------------ concurrent constructors
\* Thread t holds a read guard on the State (inside Draw::text).
ReadsState(t) == pc[t].at \in {"text_read", "text_scratch"}
\* Thread t holds the write guard on the intermediary state.
HoldsIntermediary(t) == pc[t].at \in {"text_scratch", "reset_scratch"}
\* Thread t holds a guard, read or write, on the State.
HoldsState(t) == lock = t \/ ReadsState(t)
\* RwLock::write on the State can be granted: no writer and no reader.
WriteFree == lock = 0 /\ \A u \in Threads : ~ReadsState(u)

\* Draw::a run by a thread, one step per statement of its critical section.
\* An entry that does not wait for the lock to be free.
a_lock_shared(t, h) ==
    /\ ~panicked
    /\ next_prim <= MaxPrims
    /\ pc[t].at = "idle"
    /\ lock' = t
    /\ pc' = [pc EXCEPT ![t] = [at |-> "context", draw |-> h,
                                entry_log |-> state.draw_commands,
                                pushed |-> <<>>]]
    /\ returned' = None
    /\ streak' = 0
    /\ UNCHANGED <<state, handles, builders, indirects, instancers, next_prim,
                   next_uuid, panicked, calls, inst_captured>>
    /\ UNCHANGED plugin_vars

\* The write lock on the State: a thread enters when no thread holds it.
a_lock(t, h) ==
    /\ ~panicked
    /\ next_prim <= MaxPrims
    /\ pc[t].at = "idle"
    /\ WriteFree
    /\ lock' = t
    /\ pc' = [pc EXCEPT ![t] = [at |-> "context", draw |-> h,
                                entry_log |-> state.draw_commands,
                                pushed |-> <<>>]]
    /\ returned' = None
    /\ streak' = 0
    /\ UNCHANGED <<state, handles, builders, indirects, instancers, next_prim,
                   next_uuid, panicked, calls, inst_captured>>
    /\ UNCHANGED plugin_vars

\* The context comparison and its push.
a_context(t) ==
    /\ pc[t].at = "context"
    /\ LET context == handles[pc[t].draw].context
       IN IF state.last_draw_context # Some(context)
          THEN /\ state' = [state EXCEPT !.draw_commands = Append(@, Some(ContextCmd(context))),
                                         !.last_draw_context = Some(context)]
               /\ pc' = [pc EXCEPT ![t].at = "material",
                                   ![t].pushed = Append(@, Some(ContextCmd(context)))]
          ELSE /\ state' = state
               /\ pc' = [pc EXCEPT ![t].at = "material"]
    /\ UNCHANGED <<handles, builders, indirects, instancers, next_prim,
                   next_uuid, panicked, returned, calls, inst_captured, streak,
                   lock>>
    /\ UNCHANGED plugin_vars

\* The material comparison and its push.
a_material(t) ==
    /\ pc[t].at = "material"
    /\ LET material == handles[pc[t].draw].material
       IN IF state.last_material # Some(material)
          THEN /\ state' = [state EXCEPT !.draw_commands = Append(@, Some(MaterialCmd(material))),
                                         !.last_material = Some(material)]
               /\ pc' = [pc EXCEPT ![t].at = "reserve",
                                   ![t].pushed = Append(@, Some(MaterialCmd(material)))]
          ELSE /\ state' = state
               /\ pc' = [pc EXCEPT ![t].at = "reserve"]
    /\ UNCHANGED <<handles, builders, indirects, instancers, next_prim,
                   next_uuid, panicked, returned, calls, inst_captured, streak,
                   lock>>
    /\ UNCHANGED plugin_vars

\* The placeholder push and the in-progress entry; the lock guard goes out
\* of scope and drawing::new builds the builder around the index.
a_reserve(t) ==
    /\ pc[t].at = "reserve"
    /\ LET index == Len(state.draw_commands)
       IN /\ state' = [state EXCEPT !.draw_commands = Append(@, None),
                                    !.drawing = MapInsert(@, index, next_prim)]
          /\ builders' = MapInsert(builders, next_prim,
                                   [draw |-> pc[t].draw, index |-> index])
    /\ next_prim' = next_prim + 1
    /\ calls' = Append(calls, next_prim)
    /\ lock' = 0
    /\ pc' = [pc EXCEPT ![t] = Idle]
    /\ UNCHANGED <<handles, indirects, instancers, next_uuid, panicked,
                   returned, inst_captured, streak>>
    /\ UNCHANGED plugin_vars

\* Threads calling the constructor through the handles of one session, while
\* builders are dropped and handles derived whenever the lock is free.
NextConcurrent ==
    \/ \E t \in Threads, h \in HandleIds : a_lock(t, h)
    \/ \E t \in Threads : a_context(t)
    \/ \E t \in Threads : a_material(t)
    \/ \E t \in Threads : a_reserve(t)
    \/ \E b \in DOMAIN builders : lock = 0 /\ DrawingDrop(b)
    \/ \E h \in HandleIds, d \in Deltas : Transform(h, d)
    \/ \E h \in HandleIds, v \in BoundValues : lock = 0 /\ Material(h, v)

SpecConcurrent == Init /\ [][NextConcurrent]_vars

\* ------------------------------------------------------ text and reset
\* Draw::text and Draw::reset run by a thread, one step per lock operation.
\* text: self.state.read().
text_read(t, h) ==
    /\ ~panicked
    /\ next_prim <= MaxPrims
    /\ pc[t].at = "idle"
    /\ lock = 0
    /\ pc' = [pc EXCEPT ![t] = [at |-> "text_read", draw |-> h,
                                entry_log |-> <<>>, pushed |-> <<>>]]
    /\ returned' = None
    /\ streak' = 0
    /\ UNCHANGED <<state, handles, builders, indirects, instancers, next_prim,
                   next_uuid, panicked, calls, inst_captured, lock>>
    /\ UNCHANGED plugin_vars

\* text: state.intermediary_state.write(), the read guard still held.
text_scratch(t) ==
    /\ pc[t].at = "text_read"
    /\ \A u \in Threads : ~HoldsIntermediary(u)
    /\ pc' = [pc EXCEPT ![t].at = "text_scratch"]
    /\ UNCHANGED <<state, handles, builders, indirects, instancers, next_prim,
                   next_uuid, panicked, returned, calls, inst_captured, streak,
                   lock>>
    /\ UNCHANGED plugin_vars

\* text: Text::new(ctxt, s) and the end of the block, where both guards go.
text_new(t) ==
    /\ pc[t].at = "text_scratch"
    /\ pc' = [pc EXCEPT ![t].at = "text_a"]
    /\ UNCHANGED <<state, handles, builders, indirects, instancers, next_prim,
                   next_uuid, panicked, returned, calls, inst_captured, streak,
                   lock>>
    /\ UNCHANGED plugin_vars

\* text: self.a(text) takes the write lock as every constructor call does.
text_a(t) ==
    /\ pc[t].at = "text_a"
    /\ WriteFree
    /\ lock' = t
    /\ pc' = [pc EXCEPT ![t] = [at |-> "context", draw |-> pc[t].draw,
                                entry_log |-> state.draw_commands,
                                pushed |-> <<>>]]
    /\ UNCHANGED <<state, handles, builders, indirects, instancers, next_prim,
                   next_uuid, panicked, returned, calls, inst_captured, streak>>
    /\ UNCHANGED plugin_vars

\* reset: self.state.write(); &mut self, so nothing borrows the handle.
reset_lock(t, h) ==
    /\ ~panicked
    /\ next_uuid <= MaxUuids
    /\ pc[t].at = "idle"
    /\ \A u \in Threads : pc[u].at # "idle" => pc[u].draw # h
    /\ \A b \in DOMAIN builders : builders[b].draw # h
    /\ DOMAIN indirects = {} /\ DOMAIN instancers = {}
    /\ WriteFree
    /\ lock' = t
    /\ pc' = [pc EXCEPT ![t] = [at |-> "reset_state", draw |-> h,
                                entry_log |-> <<>>, pushed |-> <<>>]]
    /\ returned' = None
    /\ streak' = 0
    /\ UNCHANGED <<state, handles, builders, indirects, instancers, next_prim,
                   next_uuid, panicked, calls, inst_captured>>
    /\ UNCHANGED plugin_vars

\* reset: the fields State::reset clears, then
\* self.intermediary_state.write(), the write guard on the State still held.
reset_state(t) ==
    /\ pc[t].at = "reset_state"
    /\ \A u \in Threads : ~HoldsIntermediary(u)
    /\ state' = State_reset(state)
    /\ calls' = <<>>
    /\ inst_captured' = {}
    /\ pc' = [pc EXCEPT ![t].at = "reset_scratch"]
    /\ UNCHANGED <<handles, builders, indirects, instancers, next_prim,
                   next_uuid, panicked, returned, streak, lock>>
    /\ UNCHANGED plugin_vars

\* A reset whose write guard on the State outlives the statement.
reset_scratch_keep_guard(t) ==
    /\ pc[t].at = "reset_scratch"
    /\ pc' = [pc EXCEPT ![t].at = "reset_material"]
    /\ UNCHANGED <<state, handles, builders, indirects, instancers, next_prim,
                   next_uuid, panicked, returned, calls, inst_captured, streak,
                   lock>>
    /\ UNCHANGED plugin_vars

\* reset: IntermediaryState::reset and the end of the statement, where both
\* guards go.
reset_scratch(t) ==
    /\ pc[t].at = "reset_scratch"
    /\ lock' = 0
    /\ pc' = [pc EXCEPT ![t].at = "reset_material"]
    /\ UNCHANGED <<state, handles, builders, indirects, instancers, next_prim,
                   next_uuid, panicked, returned, calls, inst_captured, streak>>
    /\ UNCHANGED plugin_vars

\* reset: insert_default_material, under a write lock of its own.
reset_material(t) ==
    /\ pc[t].at = "reset_material"
    /\ WriteFree
    /\ state' = [state EXCEPT !.materials = MapInsert(@, next_uuid, "default")]
    /\ handles' = [handles EXCEPT ![pc[t].draw].material = next_uuid]
    /\ next_uuid' = next_uuid + 1
    /\ pc' = [pc EXCEPT ![t] = Idle]
    /\ UNCHANGED <<builders, indirects, instancers, next_prim, panicked,
                   returned, calls, inst_captured, streak, lock>>
    /\ UNCHANGED plugin_vars

\* Threads that record primitives and text and reset handles of one session.
NextLocks ==
    \/ \E t \in Threads, h \in HandleIds : a_lock(t, h)
    \/ \E t \in Threads : a_context(t)
    \/ \E t \in Threads : a_material(t)
    \/ \E t \in Threads : a_reserve(t)
    \/ \E t \in Threads, h \in HandleIds : text_read(t, h)
    \/ \E t \in Threads : text_scratch(t)
    \/ \E t \in Threads : text_new(t)
    \/ \E t \in Threads : text_a(t)
    \/ \E t \in Threads, h \in HandleIds : reset_lock(t, h)
    \/ \E t \in Threads : reset_state(t)
    \/ \E t \in Threads : reset_scratch(t)
    \/ \E t \in Threads : reset_material(t)
    \/ \E b \in DOMAIN builders : WriteFree /\ DrawingDrop(b)
    \/ \E h \in HandleIds, d \in Deltas : Transform(h, d)

SpecLocks == Init /\ [][NextLocks]_vars

\* ------------------------------------------------------ concurrent drain
\* Draw::drain_commands run by a thread: its two lock sections are two steps.
\* self.finish_remaining_drawings(): the Material flush and the
\* force-finalization, under one write guard that is dropped on return.
drain_finish(t, h) ==
    /\ ~panicked
    /\ pc[t].at = "idle"
    /\ WriteFree
    /\ \E order \in Orders(DOMAIN state.drawing) :
          state' = Draw_finish_remaining_drawings(state, handles[h].material, order)
    /\ pc' = [pc EXCEPT ![t] = [at |-> "drain_take", draw |-> h,
                                entry_log |-> <<>>, pushed |-> <<>>]]
    /\ returned' = None
    /\ streak' = 0
    /\ UNCHANGED <<handles, builders, indirects, instancers, next_prim,
                   next_uuid, panicked, calls, inst_captured, lock>>
    /\ UNCHANGED plugin_vars

\* The second write guard: draw_commands is replaced by an empty Vec and the
\* old one is returned without its None entries.
drain_take(t) ==
    /\ pc[t].at = "drain_take"
    /\ WriteFree
    /\ state' = [state EXCEPT !.draw_commands = <<>>]
    /\ returned' = Some(filter_map(state.draw_commands))
    /\ calls' = <<>>
    /\ inst_captured' = {}
    /\ streak' = 1
    /\ pc' = [pc EXCEPT ![t] = Idle]
    /\ UNCHANGED <<handles, builders, indirects, instancers, next_prim,
                   next_uuid, panicked, lock>>
    /\ UNCHANGED plugin_vars

\* Threads that record primitives through the handles of one session while
\* another thread drains it.
NextDrain ==
    \/ \E t \in Threads, h \in HandleIds : a_lock(t, h)
    \/ \E t \in Threads : a_context(t)
    \/ \E t \in Threads : a_material(t)
    \/ \E t \in Threads : a_reserve(t)
    \/ \E t \in Threads, h \in HandleIds : drain_finish(t, h)
    \/ \E t \in Threads : drain_take(t)
    \/ \E b \in DOMAIN builders : WriteFree /\ DrawingDrop(b)
    \/ \E h \in HandleIds, d \in Deltas : Transform(h, d)

SpecDrain == Init /\ [][NextDrain]_vars

\* ------------------------------------------------------ transform chains
\* Deltas with a scale among them, so that the order of composition shows:
\* the identity, translate(1) and scale(2).
AffineDeltas == {<<1, 0>>, <<1, 1>>, <<2, 0>>}

\* The context Draw::transform gives the derived handle.
Draw_transform(context, transform_matrix) ==
    [transform |-> MatMul(context.transform, transform_matrix)]

\* The transform stays within the coordinates the model follows.
InRange(context) ==
    context.transform[1] <= MaxCoord /\ context.transform[2] <= MaxCoord

\* let draw = draw.transform(m): the derived handle takes the name of its
\* parent, a derived handle that nothing borrows.
TransformShadow(h, transform_matrix) ==
    /\ ~panicked
    /\ h > 1
    /\ \A b \in DOMAIN builders : builders[b].draw # h
    /\ DOMAIN indirects = {} /\ DOMAIN instancers = {}
    /\ InRange(Draw_transform(handles[h].context, transform_matrix))
    /\ handles' = [handles EXCEPT ![h].context =
                      Draw_transform(handles[h].context, transform_matrix)]
    /\ returned' = None
    /\ streak' = 0
    /\ UNCHANGED <<lock, pc>>
    /\ UNCHANGED <<state, builders, indirects, instancers, next_prim,
                   next_uuid, panicked, calls, inst_captured>>
    /\ UNCHANGED plugin_vars

\* Handles derived in chains, and primitives recorded through them.
NextTransform ==
    \/ \E h \in HandleIds : A(h)
    \/ \E b \in DOMAIN builders : DrawingDrop(b)
    \/ \E h \in HandleIds, d \in AffineDeltas :
          InRange(Draw_transform(handles[h].context, d)) /\ Transform(h, d)
    \/ \E h \in HandleIds, d \in AffineDeltas : TransformShadow(h, d)
    \/ \E h \in HandleIds : DrawDrop(h)

SpecTransform == Init /\ [][NextTransform]_vars

\* ------------------------------------------------- script type registry
\* The types the registry may hold (TypeId::of::<T>()).
Types == {"u8", "f32", "bool"}

\* The conversion functions, each a type data value keyed by its own type:
\* ReflectIntoJsFn and ReflectFromJsFn are distinct fn pointer types.
IntoJsFns ==
    {[type_id |-> "ReflectIntoJsFn", f |-> name] :
        name \in {"JsValue::from", "reflect_into_js"}}
FromJsFns ==
    {[type_id |-> "ReflectFromJsFn", f |-> name] :
        name \in {"try_from_js", "to_numeric", "reflect_from_js"}}

\* The registration App::register_type::<T>() adds: the type data of the
\* Reflect derive only.
PlainRegistration ==
    MapInsert(EmptyMap, "ReflectFromPtr", [type_id |-> "ReflectFromPtr", f |-> "from_ptr"])

\* TypeRegistration::insert: the data table is keyed by the type of the data.
TypeRegistration_insert(registration, data) ==
    MapInsert(registration, data.type_id, data)

\* A registration that keeps the into-JS function only.
register_type_into_only(registry, T, into_js_fn, from_js_fn) ==
    IF T \notin DOMAIN registry
    THEN [type_registry |-> registry, panic |-> Some(<<T, "not registered">>)]
    ELSE [type_registry |->
             [registry EXCEPT ![T] = TypeRegistration_insert(@, into_js_fn)],
          panic |-> None]

\* register_type::<T>: get_mut(TypeId::of::<T>()), panic when it is None,
\* then one insert per conversion function.
register_type(registry, T, into_js_fn, from_js_fn) ==
    IF T \notin DOMAIN registry
    THEN [type_registry |-> registry, panic |-> Some(<<T, "not registered">>)]
    ELSE [type_registry |->
             [registry EXCEPT ![T] =
                 TypeRegistration_insert(TypeRegistration_insert(@, into_js_fn),
                                         from_js_fn)],
          panic |-> None]

\* One call of register_type::<T> with the two functions given.
RegisterType(T, into_js_fn, from_js_fn) ==
    /\ panic_message = None
    /\ LET r == register_type(type_registry, T, into_js_fn, from_js_fn)
       IN /\ type_registry' = r.type_registry
          /\ panic_message' = r.panic
    /\ UNCHANGED <<run_vars, draw_vars, wgpu_vars, render_vars>>

\* register_type!(T, registry)
RegisterTypeMacro(T) ==
    RegisterType(T, [type_id |-> "ReflectIntoJsFn", f |-> "JsValue::from"],
                    [type_id |-> "ReflectFromJsFn", f |-> "try_from_js"])

\* register_numeric_type!(T, registry)
RegisterNumericTypeMacro(T) ==
    RegisterType(T, [type_id |-> "ReflectIntoJsFn", f |-> "JsValue::from"],
                    [type_id |-> "ReflectFromJsFn", f |-> "to_numeric"])

\* App::register_script_type::<T>(): register_type::<T> on the registry as it
\* is, then App::register_type::<T>().
RegisterScriptType(T) ==
    RegisterType(T, [type_id |-> "ReflectIntoJsFn", f |-> "reflect_into_js"],
                    [type_id |-> "ReflectFromJsFn", f |-> "reflect_from_js"])

\* App::register_type::<T>(): adds the registration of T unless it is there.
AppRegisterType(T) ==
    /\ panic_message = None
    /\ T \notin DOMAIN type_registry
    /\ type_registry' = MapInsert(type_registry, T, PlainRegistration)
    /\ UNCHANGED <<panic_message, run_vars, draw_vars, wgpu_vars, render_vars>>

\* The registry starts with any of the types registered.
InitScript ==
    /\ DrawInit
    /\ SamplerIdle
    /\ RenderIdle
    /\ \E present \in SUBSET Types :
          type_registry = [T \in present |-> PlainRegistration]
    /\ panic_message = None
    /\ model = Struct("Model", <<>>)
    /\ js_context = FALSE
    /\ outcome = None

NextScript ==
    \/ \E T \in Types : RegisterTypeMacro(T)
    \/ \E T \in Types : RegisterNumericTypeMacro(T)
    \/ \E T \in Types : RegisterScriptType(T)
    \/ \E T \in Types : AppRegisterType(T)

SpecScript == InitScript /\ [][NextScript]_vars

\* ----------------------------------------------------------- run_script
\* f32: a number or NaN.
F32(n) == [nan |-> FALSE, n |-> n]
NaN == [nan |-> TRUE, n |-> 0]

\* boa_engine::JsValue, the variants a model's fields take.
JsInteger(n) == <<"Integer", n>>
JsRational(x) == <<"Rational", x>>
JsBoolean(b) == <<"Boolean", b>>
JsUndefined == <<"Undefined">>
JsObject(properties) == <<"Object", properties>>

\* JsObject::get: the value of the property, undefined when there is none.
JsObject_get(obj, name) ==
    IF name \in DOMAIN obj[2] THEN obj[2][name] ELSE JsUndefined

\* TypeRegistry::get_type_data::<D>(type_id)
get_type_data(registry, type_id, D) ==
    IF type_id \in DOMAIN registry /\ D \in DOMAIN registry[type_id]
    THEN Some(registry[type_id][D])
    ELSE None

\* The into-JS function of register_type! and register_numeric_type!:
\* JsValue::from(*v.downcast_ref::<T>()).
into_js(fn, v) ==
    CASE v.type_id = "u8" -> JsInteger(v.value)
      [] v.type_id = "f32" -> JsRational(v.value)
      [] v.type_id = "bool" -> JsBoolean(v.value)

\* JsValue::to_numeric of the values a field takes, as the number it gives.
to_numeric(js) ==
    CASE js[1] = "Integer" -> F32(js[2])
      [] js[1] = "Rational" -> js[2]
      [] js[1] = "Boolean" -> F32(IF js[2] THEN 1 ELSE 0)
      [] OTHER -> NaN

\* The from-JS functions: try_from_js(..).expect("Could not convert") of
\* register_type!, to_numeric and the cast of register_numeric_type!.
\* Some(the boxed value), or None when the function panics.
from_js(fn, type_id, js) ==
    CASE fn.f = "to_numeric" -> Some(Value(type_id, to_numeric(js)))
      [] fn.f = "try_from_js" /\ type_id = "u8" ->
            IF js[1] = "Integer" /\ js[2] \in 0..255
            THEN Some(Value(type_id, js[2]))
            ELSE None
      [] fn.f = "try_from_js" /\ type_id = "bool" ->
            IF js[1] = "Boolean" THEN Some(Value(type_id, js[2])) ELSE None

\* ScriptJsPlugin::finish on a registry that holds the primitive types.
ScriptJsPlugin_finish(registry) ==
    LET from == [type_id |-> "ReflectIntoJsFn", f |-> "JsValue::from"]
        try == [type_id |-> "ReflectFromJsFn", f |-> "try_from_js"]
        num == [type_id |-> "ReflectFromJsFn", f |-> "to_numeric"]
        r1 == register_type(registry, "u8", from, try).type_registry
        r2 == register_type(r1, "f32", from, num).type_registry
    IN  register_type(r2, "bool", from, try).type_registry

\* reflect_to_js_model: Some(the JS value), or None when a Value has no
\* ReflectIntoJsFn and the function panics.
RECURSIVE reflect_to_js_model(_, _)
reflect_to_js_model(m, registry) ==
    IF m.kind = "Struct"
    THEN LET pairs == [idx \in DOMAIN m.value |->
                          reflect_to_js_model(m.value[idx].field, registry)]
         IN  IF \E idx \in DOMAIN pairs : pairs[idx] = None
             THEN None
             ELSE Some(JsObject(
                     [name \in {m.value[idx].name : idx \in DOMAIN m.value} |->
                         Unwrap(pairs[CHOOSE idx \in DOMAIN m.value :
                                         m.value[idx].name = name])]))
    ELSE LET fn == get_type_data(registry, m.type_id, "ReflectIntoJsFn")
         IN  IF IsSome(fn) THEN Some(into_js(Unwrap(fn), m)) ELSE None

\* The loop of write_js_model from field idx on: the fields are set one by
\* one, and the first field without a ReflectFromJsFn ends the loop by `?`.
RECURSIVE write_fields(_, _, _, _)
write_fields(fields, idx, field_data, registry) ==
    IF idx > Len(fields)
    THEN [fields |-> fields, result |-> <<"Ok">>]
    ELSE LET fn == get_type_data(registry, field_data[idx].field_type_id,
                                 "ReflectFromJsFn")
         IN  IF fn = None
             THEN [fields |-> fields,
                   result |-> <<"Err", "Unable to find ReflectFromJs for type">>]
             ELSE LET v == from_js(Unwrap(fn), field_data[idx].field_type_id,
                                   field_data[idx].value)
                  IN  IF v = None
                      THEN [fields |-> fields,
                            result |-> <<"Panic", "Could not convert">>]
                      ELSE write_fields(
                              [fields EXCEPT ![idx].field = Unwrap(v)],
                              idx + 1, field_data, registry)

\* write_js_model on a Struct: the JS value must be an object; field_data
\* is read for every field first, then the fields are set.
write_js_model(m, js_value, registry) ==
    IF js_value[1] # "Object"
    THEN [model |-> m, result |-> <<"Panic", "Unsupported type">>]
    ELSE LET field_data ==
                 [idx \in DOMAIN m.value |->
                     [name |-> m.value[idx].name,
                      value |-> JsObject_get(js_value, m.value[idx].name),
                      field_type_id |-> m.value[idx].field.type_id]]
             w == write_fields(m.value, 1, field_data, registry)
         IN  [model |-> [m EXCEPT !.value = w.fields], result |-> w.result]

\* A run_script that returns from the evaluation error at once.
run_script_early_return(ctx, registry, m, loaded, eval) ==
    IF ~loaded
    THEN [js_context |-> ctx, model |-> m, outcome |-> Some("not loaded"),
          panic |-> None]
    ELSE IF ~ctx
    THEN [js_context |-> FALSE, model |-> m, outcome |-> None,
          panic |-> Some(<<"JsContext", "unwrap on None">>)]
    ELSE IF reflect_to_js_model(m, registry) = None
    THEN [js_context |-> FALSE, model |-> m, outcome |-> None,
          panic |-> Some(<<"model", "Unable to find ReflectIntoJsFn">>)]
    ELSE IF eval[1] = "Err"
    THEN [js_context |-> FALSE, model |-> m, outcome |-> Some("eval error"),
          panic |-> None]
    ELSE LET w == write_js_model(m, eval[2], registry)
         IN  IF w.result[1] = "Panic"
             THEN [js_context |-> FALSE, model |-> w.model, outcome |-> None,
                   panic |-> Some(<<"model", w.result[2]>>)]
             ELSE [js_context |-> TRUE, model |-> w.model,
                   outcome |-> Some(IF w.result[1] = "Ok" THEN "success"
                                                          ELSE "write error"),
                   panic |-> None]

\* run_script: return when the script asset is not there; take the
\* JsContext out of the world, hand the model to the script, evaluate,
\* write the result back when the evaluation gave one, log the errors, and
\* put the JsContext back.  A panic leaves the world without the JsContext.
run_script(ctx, registry, m, loaded, eval) ==
    IF ~loaded
    THEN [js_context |-> ctx, model |-> m, outcome |-> Some("not loaded"),
          panic |-> None]
    ELSE IF ~ctx
    THEN [js_context |-> FALSE, model |-> m, outcome |-> None,
          panic |-> Some(<<"JsContext", "unwrap on None">>)]
    ELSE IF reflect_to_js_model(m, registry) = None
    THEN [js_context |-> FALSE, model |-> m, outcome |-> None,
          panic |-> Some(<<"model", "Unable to find ReflectIntoJsFn">>)]
    ELSE IF eval[1] = "Err"
    THEN [js_context |-> TRUE, model |-> m, outcome |-> Some("eval error"),
          panic |-> None]
    ELSE LET w == write_js_model(m, eval[2], registry)
         IN  IF w.result[1] = "Panic"
             THEN [js_context |-> FALSE, model |-> w.model, outcome |-> None,
                   panic |-> Some(<<"model", w.result[2]>>)]
             ELSE [js_context |-> TRUE, model |-> w.model,
                   outcome |-> Some(IF w.result[1] = "Ok" THEN "success"
                                                          ELSE "write error"),
                   panic |-> None]

\* The names of a model's fields, in order.
FieldNames == <<"a", "b", "c", "d">>

\* The types of a model's fields: the registered primitives, a String (a
\* Value no conversion is registered for) and a nested struct.
FieldValues ==
    {Value("u8", n) : n \in 0..1}
        \cup {Value("f32", F32(n)) : n \in 0..1}
        \cup {Value("bool", b) : b \in BOOLEAN}
        \cup {Value("String", "s")}
        \cup {Struct("Inner", <<>>),
              Struct("Inner", <<[name |-> "x", field |-> Value("u8", 0)]>>)}

\* The models: structs of one to MaxFields fields.
Models ==
    {Struct("Model", [idx \in 1..n |-> [name |-> FieldNames[idx], field |-> fs[idx]]]) :
        fs \in [1..MaxFields -> FieldValues], n \in 1..MaxFields}

\* What a script leaves in a property of the object it returns.
JsFieldValues ==
    {JsInteger(0), JsInteger(1), JsInteger(256), JsBoolean(TRUE), JsUndefined,
     JsObject(EmptyMap)}

\* What Context::eval gives for a model: an error, or the value of
\* update(app, model): undefined, or an object with some of the fields.
EvalResults(m) ==
    LET names == {m.value[idx].name : idx \in DOMAIN m.value}
    IN  {<<"Err">>, <<"Ok", JsUndefined>>}
            \cup {<<"Ok", JsObject(obj)>> :
                    obj \in UNION {[present -> JsFieldValues] :
                                      present \in SUBSET names}}

\* One call of run_script(world, js_app, model).
RunScript(loaded, eval) ==
    /\ panic_message = None
    /\ LET r == run_script(js_context, type_registry, model, loaded, eval)
       IN /\ js_context' = r.js_context
          /\ model' = r.model
          /\ outcome' = r.outcome
          /\ panic_message' = r.panic
    /\ UNCHANGED <<type_registry, draw_vars, wgpu_vars, render_vars>>

\* The world after the plugins are finished and the Startup schedule has
\* run: the conversions of the primitives are registered and setup has
\* inserted the JsContext.
InitRunScript ==
    /\ DrawInit
    /\ SamplerIdle
    /\ RenderIdle
    /\ type_registry =
          ScriptJsPlugin_finish([T \in Types \cup {"String"} |-> PlainRegistration])
    /\ panic_message = None
    /\ model \in Models
    /\ js_context = TRUE
    /\ outcome = None

NextRunScript ==
    \E loaded \in BOOLEAN, eval \in EvalResults(model) : RunScript(loaded, eval)

SpecRunScript == InitRunScript /\ [][NextRunScript]_vars

\* --------------------------------------------------------- wgpu sampler
\* wgpu::FilterMode and wgpu::AddressMode.
FilterModes == {"Nearest", "Linear"}
AddressModes == {"ClampToEdge", "Repeat", "MirrorRepeat"}

\* The descriptors followed: the three filters and two of the address modes.
SamplerDescriptors ==
    [mag_filter : FilterModes, min_filter : FilterModes,
     mipmap_filter : FilterModes,
     address_mode_u : AddressModes, address_mode_v : AddressModes]

\* A classification that overlooks the mipmap filter.
sampler_filtering_no_mipmap(d) ==
    IF <<d.mag_filter, d.min_filter>> = <<"Nearest", "Nearest">>
    THEN FALSE
    ELSE TRUE

\* sampler_filtering: the match on (mag_filter, min_filter, mipmap_filter).
sampler_filtering(d) ==
    IF <<d.mag_filter, d.min_filter, d.mipmap_filter>> =
          <<"Nearest", "Nearest", "Nearest">>
    THEN FALSE
    ELSE TRUE

\* One call of sampler_filtering(&desc).
SamplerFiltering ==
    /\ filtering = None
    /\ filtering' = Some(sampler_filtering(desc))
    /\ UNCHANGED <<desc, draw_vars, script_vars, render_vars>>

InitSampler ==
    /\ DrawInit
    /\ ScriptIdle
    /\ RenderIdle
    /\ desc \in SamplerDescriptors
    /\ filtering = None

NextSampler == SamplerFiltering

SpecSampler == InitSampler /\ [][NextSampler]_vars

\* ------------------------------------------------ indirect render commands
\* Handles of shader storage buffers: the args buffer and the vertex override.
SsboHandles == {"args", "verts"}

\* The item query: None, or the IndirectBuffer and IndirectVertexBuffer
\* components of the item.
ItemQueries ==
    {None} \cup
    {Some([indirect_buffer |-> "args", vertex_buffer |-> vb]) :
        vb \in {None, Some("verts")}}

\* What the render world may resolve for the item.
Worlds ==
    [mesh_instance : BOOLEAN,
     gpu_mesh : {None, Some("Indexed"), Some("NonIndexed")},
     item_q : ItemQueries,
     ssbos : SUBSET SsboHandles,
     vertex_slice : BOOLEAN,
     index_slice : BOOLEAN,
     instance : BOOLEAN,
     model : BOOLEAN]

\* SetShaderModelBindGroup::<SM, I>::render
SetShaderModelBindGroup_render(w, p, I) ==
    IF ~w.instance
    THEN [pass |-> p, result |-> "Skip"]
    ELSE IF ~w.model
    THEN [pass |-> p, result |-> "Skip"]
    ELSE [pass |-> Append(p, <<"set_bind_group", I>>), result |-> "Success"]

\* A render that falls back on the mesh's own vertices when the override
\* does not resolve.
DrawMeshIndirect_render_fallback(w, p) ==
    IF ~w.mesh_instance
    THEN [pass |-> p, result |-> "Skip"]
    ELSE IF w.gpu_mesh = None
    THEN [pass |-> p, result |-> "Skip"]
    ELSE IF w.item_q = None
    THEN [pass |-> p, result |-> "Skip"]
    ELSE IF Unwrap(w.item_q).indirect_buffer \notin w.ssbos
    THEN [pass |-> p, result |-> "Skip"]
    ELSE
      LET indirect_buffer == <<"ssbo", Unwrap(w.item_q).indirect_buffer>>
          override == Unwrap(w.item_q).vertex_buffer
          vertex_buffer ==
             IF IsSome(override) /\ Unwrap(override) \in w.ssbos
             THEN Some(<<"ssbo", Unwrap(override)>>)
             ELSE IF w.vertex_slice
                  THEN Some(<<"mesh_vertex_slice">>)
                  ELSE None
      IN IF vertex_buffer = None
         THEN [pass |-> p, result |-> "Skip"]
         ELSE
           LET p1 == Append(p, <<"set_vertex_buffer", 0, Unwrap(vertex_buffer)>>)
           IN IF Unwrap(w.gpu_mesh) = "Indexed"
              THEN IF ~w.index_slice
                   THEN [pass |-> p1, result |-> "Skip"]
                   ELSE [pass |-> p1 \o <<<<"set_index_buffer", <<"mesh_index_slice">>, 0>>,
                                          <<"draw_indexed_indirect", indirect_buffer, 0>>>>,
                         result |-> "Success"]
              ELSE [pass |-> Append(p1, <<"draw_indirect", indirect_buffer, 0>>),
                    result |-> "Success"]

\* A render that draws a non-indexed mesh before it has looked its buffers up.
DrawMeshIndirect_render_eager(w, p) ==
    IF ~w.mesh_instance
    THEN [pass |-> p, result |-> "Skip"]
    ELSE IF w.gpu_mesh = None
    THEN [pass |-> p, result |-> "Skip"]
    ELSE IF w.item_q = None
    THEN [pass |-> p, result |-> "Skip"]
    ELSE IF Unwrap(w.item_q).indirect_buffer \notin w.ssbos
    THEN [pass |-> Append(p, <<"draw_indirect",
                               <<"ssbo", Unwrap(w.item_q).indirect_buffer>>, 0>>),
          result |-> "Skip"]
    ELSE DrawMeshIndirect_render_fallback(w, p)

\* A render that treats every mesh as non-indexed.
DrawMeshIndirect_render_unindexed(w, p) ==
    DrawMeshIndirect_render_fallback(
        [w EXCEPT !.gpu_mesh = IF IsSome(@) THEN Some("NonIndexed") ELSE @], p)

\* DrawMeshIndirect::render: the early returns in the order of the source,
\* then set_vertex_buffer, then the draw call the buffer info selects.
DrawMeshIndirect_render(w, p) ==
    IF ~w.mesh_instance
    THEN [pass |-> p, result |-> "Skip"]
    ELSE IF w.gpu_mesh = None
    THEN [pass |-> p, result |-> "Skip"]
    ELSE IF w.item_q = None
    THEN [pass |-> p, result |-> "Skip"]
    ELSE IF Unwrap(w.item_q).indirect_buffer \notin w.ssbos
    THEN [pass |-> p, result |-> "Skip"]
    ELSE
      LET indirect_buffer == <<"ssbo", Unwrap(w.item_q).indirect_buffer>>
          override == Unwrap(w.item_q).vertex_buffer
          vertex_buffer ==
             IF IsSome(override)
             THEN IF Unwrap(override) \in w.ssbos
                  THEN Some(<<"ssbo", Unwrap(override)>>)
                  ELSE None
             ELSE IF w.vertex_slice
                  THEN Some(<<"mesh_vertex_slice">>)
                  ELSE None
      IN IF vertex_buffer = None
         THEN [pass |-> p, result |-> "Skip"]
         ELSE
           LET p1 == Append(p, <<"set_vertex_buffer", 0, Unwrap(vertex_buffer)>>)
           IN IF Unwrap(w.gpu_mesh) = "Indexed"
              THEN IF ~w.index_slice
                   THEN [pass |-> p1, result |-> "Skip"]
                   ELSE [pass |-> p1 \o <<<<"set_index_buffer", <<"mesh_index_slice">>, 0>>,
                                          <<"draw_indexed_indirect", indirect_buffer, 0>>>>,
                         result |-> "Success"]
              ELSE [pass |-> Append(p1, <<"draw_indirect", indirect_buffer, 0>>),
                    result |-> "Success"]

\* The item's SetShaderModelBindGroup<SM, 2> command, the first of the two
\* commands of DrawIndirectShaderModel followed here.
SetShaderModelBindGroup ==
    /\ result = <<>>
    /\ LET r == SetShaderModelBindGroup_render(world, pass, 2)
       IN /\ pass' = r.pass
          /\ result' = Append(result, r.result)
    /\ UNCHANGED <<world, draw_vars, script_vars, wgpu_vars>>

\* The item's DrawMeshIndirect command, which runs when the commands before
\* it have succeeded.
DrawMeshIndirect ==
    /\ result = <<"Success">>
    /\ LET r == DrawMeshIndirect_render(world, pass)
       IN /\ pass' = r.pass
          /\ result' = Append(result, r.result)
    /\ UNCHANGED <<world, draw_vars, script_vars, wgpu_vars>>

InitRender ==
    /\ DrawInit
    /\ ScriptIdle
    /\ SamplerIdle
    /\ world \in Worlds
    /\ pass = <<>>
    /\ result = <<>>

NextRender ==
    \/ SetShaderModelBindGroup
    \/ DrawMeshIndirect

SpecRender == InitRender /\ [][NextRender]_vars

\* The lookup of Draw::clone_material through handle h finds an entry:
\* state.materials.get_mut(&self.material) is Some, so its unwrap succeeds.
clone_material_ok(s, material) == material \in DOMAIN s.materials

\* ----------------------------------------------------- the lock protocol
\* Draw::clone_material: the lookup of the handle's id under the write guard;
\* the unwrap panics when the id is not bound.
CloneMaterial(h) ==
    /\ ~panicked
    /\ panicked' = ~clone_material_ok(state, handles[h].material)
    /\ returned' = None
    /\ streak' = 0
    /\ UNCHANGED <<lock, pc>>
    /\ UNCHANGED <<state, handles, builders, indirects, instancers, next_prim,
                   next_uuid, calls, inst_captured>>
    /\ UNCHANGED plugin_vars

\* The steps by which thread t goes on with the call it is in.
ThreadStep(t) ==
    \/ a_context(t)
    \/ a_material(t)
    \/ a_reserve(t)
    \/ text_scratch(t)
    \/ text_new(t)
    \/ text_a(t)
    \/ reset_state(t)
    \/ reset_scratch(t)
    \/ reset_material(t)
    \/ drain_take(t)

\* Every operation of a handle, the ones of several lock sections step by
\* step on a thread, the ones of a single lock section in one step that
\* waits for the write lock.  A run derives a material handle or uses an
\* Indirect marker, not both.
NextProtocol ==
    \/ \E t \in Threads, h \in HandleIds :
          next_prim <= MaxProtocolPrims /\ a_lock(t, h)
    \/ \E t \in Threads, h \in HandleIds :
          next_prim <= MaxProtocolPrims /\ text_read(t, h)
    \/ \E t \in Threads, h \in HandleIds : reset_lock(t, h)
    \/ \E t \in Threads, h \in HandleIds : drain_finish(t, h)
    \/ \E t \in Threads : ThreadStep(t)
    \/ \E b \in DOMAIN builders : WriteFree /\ DrawingDrop(b)
    \/ \E h \in HandleIds, v \in MaterialValues :
          /\ WriteFree
          /\ next_uuid <= MaxUuids
          /\ state.instanced = {} /\ DOMAIN indirects = {}
          /\ Material(h, v)
    \/ \E h \in HandleIds : WriteFree /\ CloneMaterial(h)
    \/ \E h \in HandleIds : Len(handles) = 1 /\ IndirectNew(h)
    \/ \E m \in DOMAIN indirects, b \in DOMAIN builders :
          WriteFree /\ IndirectPrimitive(m, b)
    \/ \E m \in DOMAIN indirects, ssbo \in Buffers : IndirectBuffer(m, ssbo)
    \/ \E m \in DOMAIN indirects : WriteFree /\ IndirectDrop(m)

\* A thread that can go on does go on: the scheduler runs every thread, and a
\* lock that becomes free again and again is eventually granted.
SpecProtocol ==
    /\ Init
    /\ [][NextProtocol]_vars
    /\ \A t \in Threads : SF_vars(ThreadStep(t))

\* ================================================================ claims
\* The primitives of the terminal commands of a drained sequence, in order.
RECURSIVE TerminalPrims(_)
TerminalPrims(cmds) ==
    IF cmds = <<>>
    THEN <<>>
    ELSE IF IsTerminal(Head(cmds))
         THEN <<Head(cmds)[2]>> \o TerminalPrims(Tail(cmds))
         ELSE TerminalPrims(Tail(cmds))

\* The variants of the commands of a sequence.
Variants(cmds) == {Variant(cmds[i]) : i \in 1..Len(cmds)}

\* Number of positions of a sequence that hold x.
Count(seq, x) == Cardinality({i \in 1..Len(seq) : seq[i] = x})

\* A step that is a call of drain_commands.
DrainStep == IsSome(returned') /\ streak' # streak

\* C1: the sequence returned by drain_commands holds exactly one terminal
\* command for each primitive constructed since the previous drain: none is
\* lost, none is duplicated, whatever the route by which each was finalized.
C1_OneTerminalPerCall ==
    [][DrainStep =>
          LET prims == TerminalPrims(Unwrap(returned'))
          IN /\ Len(prims) = Len(calls)
             /\ \A i \in 1..Len(calls) : Count(prims, calls[i]) = 1]_vars

\* A drain has just returned a Primitive, an Instanced and an Indirect
\* command, one of them for a builder that was still alive when it ran.
C1_Witness ==
    /\ IsSome(returned)
    /\ {"Primitive", "Instanced", "Indirect"} \subseteq Variants(Unwrap(returned))
    /\ DOMAIN builders # {}

\* C2: in the sequence returned by drain_commands the terminal commands
\* appear in the order in which their slots were reserved.
C2_ReservationOrder ==
    [][DrainStep => TerminalPrims(Unwrap(returned')) = calls]_vars

\* The values carried by the commands of variant v of a log, in order.
RECURSIVE KindValues(_, _)
KindValues(log, v) ==
    IF log = <<>>
    THEN <<>>
    ELSE IF IsSome(Head(log)) /\ Variant(Unwrap(Head(log))) = v
         THEN <<Unwrap(Head(log))[2]>> \o KindValues(Tail(log), v)
         ELSE KindValues(Tail(log), v)

\* No two neighbours of a sequence are equal.
NoRepeat(seq) == \A i \in 1..(Len(seq) - 1) : seq[i] # seq[i + 1]

\* What a constructor call through handle h appends to the log.
PushedBy(h) ==
    (IF state.last_draw_context # Some(handles[h].context)
     THEN <<Some(ContextCmd(handles[h].context))>> ELSE <<>>)
    \o (IF state.last_material # Some(handles[h].material)
        THEN <<Some(MaterialCmd(handles[h].material))>> ELSE <<>>)
    \o <<None>>

\* C3: the primitive constructor pushes a Context command iff the handle's
\* context differs from last_draw_context and a Material command iff its
\* material id differs from last_material, and updates both memories; so no
\* Context (Material) command of the log repeats the value of the nearest
\* preceding Context (Material) command.
C3_ChangeDetection ==
    /\ [](/\ NoRepeat(KindValues(state.draw_commands, "Context"))
          /\ NoRepeat(KindValues(state.draw_commands, "Material")))
    /\ [][next_prim' # next_prim =>
            \E h \in DOMAIN handles :
               /\ state'.draw_commands = state.draw_commands \o PushedBy(h)
               /\ state'.last_draw_context = Some(handles[h].context)
               /\ state'.last_material = Some(handles[h].material)]_vars

\* The log holds two Context commands and two neighbouring slots, the second
\* of which was reserved by a call that pushed no change command.
C3_Witness ==
    /\ Len(KindValues(state.draw_commands, "Context")) >= 2
    /\ \E i \in 1..(Len(state.draw_commands) - 1) :
          /\ state.draw_commands[i] = None
          /\ state.draw_commands[i + 1] = None

\* C4: a primitive whose slot was captured for instancing has no plain
\* Primitive command in the sequence drain_commands returns, also when its
\* value is still in `drawing` when the drain force-finalizes.
C4_NoPlainForInstanced ==
    [][DrainStep =>
          \A p \in inst_captured :
             Count(Unwrap(returned'), PrimitiveCmd(p)) = 0]_vars

\* C5: every None position of draw_commands has its index in `drawing` or in
\* `instanced`.
C5_PlaceholdersTracked ==
    \A i \in 1..Len(state.draw_commands) :
       state.draw_commands[i] = None =>
          (i - 1) \in (DOMAIN state.drawing) \cup state.instanced

\* The log holds a placeholder still in progress and a placeholder whose
\* entry an indirect commit has taken out of `drawing`.
C5_Witness ==
    /\ \E i \in 1..Len(state.draw_commands) :
          /\ state.draw_commands[i] = None
          /\ (i - 1) \in DOMAIN state.drawing
          /\ (i - 1) \notin state.instanced
    /\ \E i \in 1..Len(state.draw_commands) :
          /\ state.draw_commands[i] = None
          /\ (i - 1) \notin DOMAIN state.drawing
    /\ "Indirect" \in Variants(filter_map(state.draw_commands))

\* A step in which the Indirect marker m is dropped.
IndirectDropped(m) == m \in DOMAIN indirects /\ m \notin DOMAIN indirects'

\* C6: an indirect commit writes the Indirect command at the log position of
\* the slot the captured primitive reserved.
C6_IndirectAtSlot ==
    [][\A m \in DOMAIN indirects :
          (/\ IndirectDropped(m)
           /\ IsSome(indirects[m].primitive_index)
           /\ IsSome(indirects[m].indirect_buffer)
           /\ Unwrap(indirects[m].primitive_index) \in DOMAIN state.drawing)
          => LET index == Unwrap(indirects[m].primitive_index)
             IN /\ index < Len(state'.draw_commands)
                /\ state'.draw_commands[index + 1] =
                      Some(IndirectCmd(state.drawing[index],
                                       Unwrap(indirects[m].indirect_buffer),
                                       indirects[m].vertex_buffer))]_vars

\* C7: dropping an Indirect marker that captured a primitive but never got an
\* args buffer fails; it never completes silently.
C7_MissingBufferFails ==
    [][\A m \in DOMAIN indirects :
          (/\ IndirectDropped(m)
           /\ IsSome(indirects[m].primitive_index)
           /\ indirects[m].indirect_buffer = None)
          => panicked']_vars

\* C8: a dropped Indirect marker holding a captured primitive and an args
\* buffer, and no vertex-buffer override, has committed the command
\* Indirect(captured primitive, last args buffer, None).
C8_IndirectCommand ==
    [][\A m \in DOMAIN indirects :
          (/\ IndirectDropped(m)
           /\ IsSome(indirects[m].primitive_index)
           /\ IsSome(indirects[m].indirect_buffer)
           /\ indirects[m].vertex_buffer = None)
          => Count(state'.draw_commands,
                   Some(IndirectCmd(Unwrap(indirects[m].captured),
                                    Unwrap(indirects[m].indirect_buffer),
                                    None))) = 1]_vars

\* C9: a drain_commands that immediately follows another drain_commands, made
\* through any handle of the session, returns an empty sequence.
C9_SecondDrainEmpty ==
    [][(DrainStep /\ streak' = 2) => Unwrap(returned') = <<>>]_vars

\* C9 as amended: the second of two consecutive drains returns an empty
\* sequence when its handle's material id is the one last_material holds
\* (as after a drain through the same handle), and exactly the Material
\* command of its handle otherwise.
C9_SecondDrainMaterialOnly ==
    [][(DrainStep /\ streak' = 2) =>
          Unwrap(returned') =
             IF state'.last_material = state.last_material
             THEN <<>>
             ELSE <<MaterialCmd(Unwrap(state'.last_material))>>]_vars

\* Two drains in a row, after primitives were recorded, the second of which
\* returned an empty sequence.
C9_Witness ==
    /\ streak = 2
    /\ returned = Some(<<>>)
    /\ next_prim > 1

\* The session's log and in-progress table are both empty.
NothingRecorded == state.draw_commands = <<>> /\ DOMAIN state.drawing = {}

\* C10: drain_commands on a session whose log and in-progress table are empty
\* returns an empty sequence and does not fail.
C10_EmptyDrainEmpty ==
    [][(DrainStep /\ NothingRecorded) =>
          (Unwrap(returned') = <<>> /\ ~panicked')]_vars

\* C10 as amended: such a drain does not fail and returns nothing but the
\* Material command of its handle, present iff that handle's material id
\* differs from last_material (as on a freshly constructed session, whose
\* last_material is unset).
C10_EmptyDrainMaterialOnly ==
    [][(DrainStep /\ NothingRecorded) =>
          /\ ~panicked'
          /\ IsSome(state'.last_material)
          /\ Unwrap(returned') =
                IF state.last_material = state'.last_material
                THEN <<>>
                ELSE <<MaterialCmd(Unwrap(state'.last_material))>>]_vars

\* A session on which no primitive was ever recorded has been drained.
C10_Witness ==
    /\ IsSome(returned)
    /\ streak = 1
    /\ next_prim = 1
    /\ state.instanced = {}

\* C11: when drain_commands returns, the command log and the in-progress
\* table are empty, however many builders were outstanding when it was called.
C11_DrainLeavesEmpty ==
    [][DrainStep =>
          /\ state'.draw_commands = <<>>
          /\ DOMAIN state'.drawing = {}]_vars

\* A drain has just force-finalized two builders that are still alive.
C11_Witness ==
    /\ IsSome(returned)
    /\ Cardinality({b \in DOMAIN builders :
                       Count(Unwrap(returned), PrimitiveCmd(b)) = 1}) >= 2
    /\ state.draw_commands = <<>>
    /\ DOMAIN state.drawing = {}

\* The State of a freshly constructed session (Draw::new).
FreshState == [DefaultState EXCEPT !.materials = MapInsert(EmptyMap, 1, "default")]

\* The State after H0.ellipse() on a fresh session and the drop of the
\* unconfigured builder.
EllipseDropped ==
    finish_drawing(a_state(FreshState, DefaultContext, 1, 1),
                   a_index(FreshState, DefaultContext, 1))

\* The drain of the scenario: the session is in the State EllipseDropped and
\* only the root handle has been made.
EllipseDrain ==
    /\ DrainStep
    /\ state = EllipseDropped
    /\ Len(handles) = 1
    /\ handles[1] = [context |-> DefaultContext, material |-> 1]

\* C12: on a fresh session, H0.ellipse(), the drop of the builder and a drain
\* yield exactly [Material(A), Primitive(default ellipse)].
C12_FreshEllipseTwoCommands ==
    [][EllipseDrain =>
          Unwrap(returned') = <<MaterialCmd(1), PrimitiveCmd(1)>>]_vars

\* C12 as amended: the drain yields the three commands
\* [Context(identity), Material(A), Primitive(default ellipse)], the Context
\* command because last_draw_context is unset on a fresh session.
C12_FreshEllipseThreeCommands ==
    [][EllipseDrain =>
          Unwrap(returned') = <<ContextCmd(DefaultContext), MaterialCmd(1),
                                PrimitiveCmd(1)>>]_vars

\* The scenario has run: one primitive was constructed and dropped on the
\* root handle and the drain has returned.
C12_Witness ==
    /\ IsSome(returned)
    /\ Len(Unwrap(returned)) = 3
    /\ Count(Unwrap(returned), PrimitiveCmd(1)) = 1
    /\ next_prim = 2
    /\ DOMAIN builders = {}
    /\ Len(handles) = 1
    /\ state.instanced = {}

\* The image of the point x under the transform m.
Apply(m, x) == m[1] * x + m[2]

\* The translation by one unit, the non-zero d of the scenario.
Translate1 == <<1, 1>>

\* C13: H1 = H0.translate(d), d non-zero, has H0's transform composed with
\* the translation and H0's material id, and the derivation changes neither
\* H0 nor the State; recording through H1 when the last primitive went
\* through a handle of H0's context and material appends exactly
\* [Context(H1's context), placeholder] and changes no handle.
C13_TranslateThenRecord ==
    /\ [][\A h0 \in DOMAIN handles :
             Transform(h0, Translate1) =>
                LET h1 == handles'[Len(handles')]
                IN /\ \A x \in 0..2 :
                         Apply(h1.context.transform, x) =
                            Apply(handles[h0].context.transform, Apply(Translate1, x))
                   /\ h1.context # handles[h0].context
                   /\ h1.material = handles[h0].material
                   /\ \A k \in DOMAIN handles : handles'[k] = handles[k]
                   /\ state' = state]_vars
    /\ [][\A h0, h1 \in DOMAIN handles :
             (/\ A(h1)
              /\ state.last_draw_context = Some(handles[h0].context)
              /\ state.last_material = Some(handles[h0].material)
              /\ handles[h1].context # handles[h0].context
              /\ handles[h1].material = handles[h0].material)
             => /\ state'.draw_commands =
                      state.draw_commands
                         \o <<Some(ContextCmd(handles[h1].context)), None>>
                /\ handles' = handles]_vars

\* The root handle has recorded a primitive, and a primitive recorded through
\* its translated handle has put [Context(translate 1), placeholder] at the
\* end of the log.
C13_Witness ==
    /\ Len(handles) = 2
    /\ handles[1].context = DefaultContext
    /\ handles[2] = [context |-> [transform |-> Translate1], material |-> 1]
    /\ Len(state.draw_commands) = 5
    /\ KindValues(state.draw_commands, "Context") =
          <<DefaultContext, [transform |-> Translate1]>>
    /\ KindValues(state.draw_commands, "Material") = <<1>>
    /\ state.draw_commands[4] = Some(ContextCmd([transform |-> Translate1]))
    /\ state.draw_commands[5] = None

\* A step that is a call of material(): a handle is added and an id is taken.
MaterialStep == Len(handles') = Len(handles) + 1 /\ next_uuid' # next_uuid

\* C14: every call of material(value) binds the value under an id that was
\* not a key of the materials table, also when the value is already bound
\* under another id, and leaves the other entries as they were: both ids are
\* keys afterwards and each resolves to its own value.
C14_FreshMaterialId ==
    [][MaterialStep =>
          LET id == handles'[Len(handles')].material
          IN /\ id \notin DOMAIN state.materials
             /\ DOMAIN state'.materials = DOMAIN state.materials \cup {id}
             /\ \A h \in DOMAIN handles, v \in BoundValues :
                   Material(h, v) => state'.materials[id] = v
             /\ \A k \in DOMAIN state.materials :
                   state'.materials[k] = state.materials[k]]_vars

\* Two calls of material() with the same value have been made: the value is
\* bound under two ids, and the default value under a third.
C14_Witness ==
    /\ \E i, j \in DOMAIN state.materials :
          /\ i # j
          /\ state.materials[i] = "custom"
          /\ state.materials[j] = "custom"
    /\ \E k \in DOMAIN state.materials : state.materials[k] = "default"
    /\ Len(handles) = 2
    /\ handles[2].material \in DOMAIN state.materials
    /\ state.materials[handles[2].material] = "custom"

\* A step that is a call of reset() on handle h: only reset gives a handle
\* another material id.
ResetStep(h) ==
    /\ h \in DOMAIN handles'
    /\ handles'[h].material # handles[h].material

\* C15: after reset() on a handle H, from any state, the command log and the
\* in-progress table are empty, last_material, last_draw_context and the
\* background request are unset, and the materials table holds exactly one
\* entry, a fresh default material whose id is H's material id.
C15_ResetState ==
    [][\A h \in DOMAIN handles :
          ResetStep(h) =>
             /\ state'.draw_commands = <<>>
             /\ DOMAIN state'.drawing = {}
             /\ state'.last_material = None
             /\ state'.last_draw_context = None
             /\ state'.background_color = None
             /\ DOMAIN state'.materials = {handles'[h].material}
             /\ state'.materials[handles'[h].material] = "default"
             /\ handles'[h].material \notin DOMAIN state.materials]_vars

\* A reset has just run on one handle after a primitive was recorded through
\* the other, whose builder is still alive: the memory is unset, the log and
\* the in-progress table are empty and the table holds the new default only.
C15_Witness ==
    /\ state.last_material = None
    /\ state.last_draw_context = None
    /\ state.background_color = None
    /\ state.draw_commands = <<>>
    /\ DOMAIN state.drawing = {}
    /\ DOMAIN builders # {}
    /\ Len(handles) = 2
    /\ \E h \in DOMAIN handles :
          /\ handles[h].material > 1
          /\ DOMAIN state.materials = {handles[h].material}

\* A step that derives a handle (transform or material): one handle more.
DeriveStep == Len(handles') = Len(handles) + 1

\* C16: transform(delta) and material(value) leave every existing handle as
\* it was, push no command, and leave last_material, last_draw_context and
\* the in-progress table unchanged; transform leaves the whole State
\* unchanged and material(value) changes it only by one new entry of the
\* materials table, under the id of the derived handle.
C16_DerivationFrame ==
    [][DeriveStep =>
          LET id == handles'[Len(handles')].material
          IN /\ \A k \in DOMAIN handles : handles'[k] = handles[k]
             /\ state'.draw_commands = state.draw_commands
             /\ state'.last_material = state.last_material
             /\ state'.last_draw_context = state.last_draw_context
             /\ state'.drawing = state.drawing
             /\ IF next_uuid' = next_uuid
                THEN state' = state
                ELSE /\ id \notin DOMAIN state.materials
                     /\ state' = [state EXCEPT !.materials =
                                     MapInsert(@, id, state'.materials[id])]]_vars

\* A handle was derived with material() while a primitive recorded through
\* the root is in progress: the log and the memory still speak of the root's
\* material, and the derived handle's id is bound.
C16_Witness ==
    /\ Len(handles) = 2
    /\ handles[2].material # handles[1].material
    /\ handles[2].material \in DOMAIN state.materials
    /\ state.last_material = Some(handles[1].material)
    /\ DOMAIN state.drawing # {}
    /\ KindValues(state.draw_commands, "Material") = <<handles[1].material>>

\* The change commands a call may push, in the order the constructor pushes
\* them: nothing, a Context, a Material, or a Context then a Material.
InOrder(pushed) ==
    \/ pushed = <<>>
    \/ Len(pushed) = 1 /\ Variant(Unwrap(pushed[1])) \in {"Context", "Material"}
    \/ /\ Len(pushed) = 2
       /\ Variant(Unwrap(pushed[1])) = "Context"
       /\ Variant(Unwrap(pushed[2])) = "Material"

\* C17: under any interleaving of constructor calls made through different
\* handles, what one call pushes (its Context command if any, its Material
\* command if any, then its placeholder) is contiguous in the log, in that
\* order, right after the log the call found, and the index handed to the
\* builder is the position of the placeholder.
C17_CallIsContiguous ==
    [][\A t \in Threads :
          (pc[t].at = "reserve" /\ pc'[t].at = "idle") =>
             /\ InOrder(pc[t].pushed)
             /\ state'.draw_commands = pc[t].entry_log \o pc[t].pushed \o <<None>>
             /\ builders'[next_prim].index + 1 = Len(state'.draw_commands)
             /\ state'.drawing[builders'[next_prim].index] = next_prim]_vars

\* Two threads have each completed a call through a different handle, the
\* second one pushing a Context command right before its placeholder, and a
\* thread is inside a further call.
C17_Witness ==
    /\ \E b1, b2 \in DOMAIN builders :
          /\ builders[b1].draw # builders[b2].draw
          /\ builders[b1].index < builders[b2].index
          /\ state.draw_commands[builders[b2].index + 1] = None
          /\ IsSome(state.draw_commands[builders[b2].index])
          /\ Variant(Unwrap(state.draw_commands[builders[b2].index])) = "Context"
    /\ \E t \in Threads : pc[t].at = "material" /\ lock = t

\* A step in which builder b leaves scope (Drawing's drop, not a capture by
\* a marker) although its slot's in-progress entry is already gone.
SecondFinalization(b) ==
    /\ b \in DOMAIN builders
    /\ b \notin DOMAIN builders'
    /\ indirects' = indirects
    /\ instancers' = instancers
    /\ builders[b].index \notin DOMAIN state.drawing

\* C18: finalizing a slot a second time (a scope-exit commit on an index
\* whose in-progress entry was already removed) fails with an 'already
\* finalized' condition; it is never accepted silently.
C18_SecondFinalizationFails ==
    [][\A b \in DOMAIN builders : SecondFinalization(b) => panicked']_vars

\* C19: a scope-exit commit on a slot already consumed in the same frame does
\* not fail and leaves the State (command log, in-progress table,
\* change-detection memory) unchanged: no second terminal command is emitted.
C19_SecondFinalizationNoOp ==
    [][\A b \in DOMAIN builders :
          SecondFinalization(b) => (~panicked' /\ state' = state)]_vars

\* A builder is alive whose slot a drain has force-finalized, in a frame
\* whose log holds a committed Primitive at that builder's index; its scope
\* exit is the second finalization of the slot.
C19_Witness ==
    /\ ~panicked
    /\ \E b \in DOMAIN builders :
          LET index == builders[b].index
          IN /\ index \notin DOMAIN state.drawing
             /\ index \notin state.instanced
             /\ index < Len(state.draw_commands)
             /\ IsSome(state.draw_commands[index + 1])
             /\ Variant(Unwrap(state.draw_commands[index + 1])) = "Primitive"

\* A step that is a call of reset() through some handle.
AnyResetStep == \E h \in DOMAIN handles : ResetStep(h)

\* C20: between two resets the materials table only grows: a step that is
\* not a reset (constructor, finalization, derivation, drain) removes no
\* entry and replaces none, so every bound id keeps resolving to its value.
C20_MaterialsOnlyGrow ==
    [][~AnyResetStep =>
          \A id \in DOMAIN state.materials :
             /\ id \in DOMAIN state'.materials
             /\ state'.materials[id] = state.materials[id]]_vars

\* A drain has just returned a primitive on a session whose materials table
\* holds the default material and two bound ones, one of them a custom
\* material that is not the last one used.
C20_Witness ==
    /\ IsSome(returned)
    /\ "Primitive" \in Variants(Unwrap(returned))
    /\ Cardinality(DOMAIN state.materials) = 3
    /\ \E id \in DOMAIN state.materials :
          /\ state.materials[id] = "custom"
          /\ state.last_material # Some(id)


\* C21: in every reachable state the material id of every live handle is a
\* key of the materials table, so the lookup of clone_material never fails,
\* also after another handle of the session has called reset().
C21_HandleMaterialBound ==
    \A h \in DOMAIN handles : clone_material_ok(state, handles[h].material)

\* C22: no thread acquires a second lock while it holds the lock of the
\* session State: no thread ever holds a guard on the State and the guard on
\* the intermediary state at the same time.
C22_NoSecondLock ==
    \A t \in Threads : ~(HoldsState(t) /\ HoldsIntermediary(t))

\* C23: drain_commands is atomic with respect to constructor calls made
\* through other handles: a primitive reserved while a drain is in progress
\* is returned by that drain or by the next one, and its finalization writes
\* into no position that belongs to another command.  For that, every
\* in-progress entry must keep its own placeholder in the log: an entry whose
\* index is past the end of the log is never written anywhere, and one whose
\* index holds a command overwrites it.
C23_ReservedSlotSurvives ==
    \A index \in DOMAIN state.drawing :
       /\ index < Len(state.draw_commands)
       /\ state.draw_commands[index + 1] = None

\* ---------------------------------------------------------------- C24
\* The points the transforms are compared on.
Points == 0..2

\* C24: derivation composes by right-multiplication: the context of
\* H.transform(a).transform(b) maps every point as H's context after a after
\* b, which is the context of H.transform(a composed with b); the root
\* handle's context is the identity; deriving with the identity delta gives
\* a context equal to the parent's, and a primitive recorded through a handle
\* of the context recorded last pushes no Context command.
C24_RightMultiplication ==
    /\ [](handles[1].context = [transform |-> IDENTITY])
    /\ [](\A h \in DOMAIN handles, a \in AffineDeltas, b \in AffineDeltas :
             LET c  == handles[h].context
                 ab == Draw_transform(Draw_transform(c, a), b)
             IN /\ \A x \in Points :
                      Apply(ab.transform, x) =
                         Apply(c.transform, Apply(a, Apply(b, x)))
                /\ ab = Draw_transform(c, MatMul(a, b)))
    /\ [][\A h \in DOMAIN handles, d \in AffineDeltas :
             /\ Transform(h, d) =>
                   /\ handles'[Len(handles')].context =
                         Draw_transform(handles[h].context, d)
                   /\ \A x \in Points :
                         Apply(handles'[Len(handles')].context.transform, x) =
                            Apply(handles[h].context.transform, Apply(d, x))
                   /\ d = IDENTITY =>
                         handles'[Len(handles')].context = handles[h].context
             /\ TransformShadow(h, d) =>
                   \A x \in Points :
                      Apply(handles'[h].context.transform, x) =
                         Apply(handles[h].context.transform, Apply(d, x))]_vars
    /\ [][\A h0 \in DOMAIN handles, h1 \in DOMAIN handles :
             (/\ h1 # h0
              /\ handles[h1].context = handles[h0].context
              /\ state.last_draw_context = Some(handles[h0].context)
              /\ A(h1)) =>
                /\ KindValues(state'.draw_commands, "Context") =
                      KindValues(state.draw_commands, "Context")
                /\ state'.last_draw_context = state.last_draw_context]_vars

\* A derived handle holds scale(2) followed by translate(1), a context only a
\* chain of two derivations gives, and a primitive was recorded through it
\* after one through the root.
C24_Witness ==
    /\ Len(handles) = 2
    /\ handles[2].context.transform = <<2, 2>>
    /\ KindValues(state.draw_commands, "Context") =
          <<DefaultContext, [transform |-> <<2, 2>>]>>
    /\ \E b \in DOMAIN builders : builders[b].draw = 2

\* ---------------------------------------------------------------- C25
\* C25: register_type::<T> on a registry that holds T does not panic and
\* leaves the registration of T with both conversion functions, the ones
\* given, next to the data it had, and every other registration as it was;
\* on a registry that does not hold T it panics with "T not registered" and
\* the registry is unchanged.
C25_RegisterType ==
    [][\A T \in Types, into_js_fn \in IntoJsFns, from_js_fn \in FromJsFns :
          RegisterType(T, into_js_fn, from_js_fn) =>
             IF T \in DOMAIN type_registry
             THEN /\ panic_message' = None
                  /\ DOMAIN type_registry' = DOMAIN type_registry
                  /\ DOMAIN type_registry'[T] =
                        DOMAIN type_registry[T] \cup
                           {"ReflectIntoJsFn", "ReflectFromJsFn"}
                  /\ type_registry'[T]["ReflectIntoJsFn"] = into_js_fn
                  /\ type_registry'[T]["ReflectFromJsFn"] = from_js_fn
                  /\ \A k \in DOMAIN type_registry[T] \
                                 {"ReflectIntoJsFn", "ReflectFromJsFn"} :
                        type_registry'[T][k] = type_registry[T][k]
                  /\ \A U \in DOMAIN type_registry \ {T} :
                        type_registry'[U] = type_registry[U]
             ELSE /\ panic_message' = Some(<<T, "not registered">>)
                  /\ type_registry' = type_registry]_vars

\* A registration succeeded for one type and then a registration of a type
\* the registry does not hold panicked.
C25_Witness ==
    /\ IsSome(panic_message)
    /\ Unwrap(panic_message)[1] \notin DOMAIN type_registry
    /\ \E T \in DOMAIN type_registry :
          {"ReflectIntoJsFn", "ReflectFromJsFn", "ReflectFromPtr"} \subseteq
             DOMAIN type_registry[T]

\* ---------------------------------------------------------------- C26
\* C26: sampler_filtering returns false exactly when the magnification, the
\* minification and the mipmap filter are all Nearest, and true for each of
\* the seven other combinations, whatever the rest of the descriptor.
C26_SamplerFiltering ==
    IsSome(filtering) =>
       /\ Unwrap(filtering) \in BOOLEAN
       /\ Unwrap(filtering) = FALSE <=>
             /\ desc.mag_filter = "Nearest"
             /\ desc.min_filter = "Nearest"
             /\ desc.mipmap_filter = "Nearest"

\* The descriptor whose only linear filter is the mipmap filter was
\* classified as filtering.
C26_Witness ==
    /\ desc.mag_filter = "Nearest"
    /\ desc.min_filter = "Nearest"
    /\ desc.mipmap_filter = "Linear"
    /\ filtering = Some(TRUE)

\* ---------------------------------------------------------------- C27
\* The log with the placeholder of every in-progress entry filled with the
\* entry's primitive, every other position as it is.
Filled(log, drawing) ==
    [i \in 1..Len(log) |->
        IF log[i] = None /\ (i - 1) \in DOMAIN drawing
        THEN Some(PrimitiveCmd(drawing[i - 1]))
        ELSE log[i]]

\* The number of commands of variant v in a sequence of commands.
VariantCount(cmds, v) == Cardinality({i \in 1..Len(cmds) : Variant(cmds[i]) = v})

\* C27: drain_commands through H returns the commands of the log, in their
\* order and with the placeholders of the in-progress entries filled,
\* followed by Material(H.material) if and only if H's material id differs
\* from last_material; it leaves last_material at H's id and adds no Context
\* command.
C27_DrainFlushesMaterialOnly ==
    [][\A h \in DOMAIN handles :
          DrainCommands(h) =>
             LET material == handles[h].material
                 body == filter_map(Filled(state.draw_commands, state.drawing))
                 flush == IF state.last_material # Some(material)
                          THEN <<MaterialCmd(material)>>
                          ELSE <<>>
             IN /\ Unwrap(returned') = body \o flush
                /\ state'.last_material = Some(material)
                /\ state'.last_draw_context = state.last_draw_context
                /\ VariantCount(Unwrap(returned'), "Context") =
                      VariantCount(filter_map(state.draw_commands), "Context")]_vars

\* A drain through a handle of another material id than the last one pushed
\* has returned the filled log followed by that handle's Material command.
C27_Witness ==
    /\ IsSome(returned)
    /\ Len(Unwrap(returned)) >= 4
    /\ Variant(Unwrap(returned)[Len(Unwrap(returned))]) = "Material"
    /\ VariantCount(Unwrap(returned), "Material") = 2
    /\ VariantCount(Unwrap(returned), "Primitive") >= 1
    /\ state.last_material = Some(Unwrap(returned)[Len(Unwrap(returned))][2])

\* ---------------------------------------------------------------- C28
\* The elements of a finite set of numbers, in increasing order.
RECURSIVE Increasing(_)
Increasing(S) ==
    IF S = {}
    THEN <<>>
    ELSE LET least == CHOOSE m \in S : \A n \in S : m <= n
         IN <<least>> \o Increasing(S \ {least})

\* C28: the sequence drain_commands returns, and the State it leaves, do not
\* depend on the order in which the in-progress table is visited: every order
\* gives the result of visiting it in increasing index order.
C28_DrainOrderIndependent ==
    [][\A h \in DOMAIN handles :
          DrainCommands(h) =>
             \A order \in Orders(DOMAIN state.drawing) :
                LET s1 == Draw_finish_remaining_drawings(state, handles[h].material, order)
                    s2 == Draw_finish_remaining_drawings(state, handles[h].material,
                                                         Increasing(DOMAIN state.drawing))
                IN /\ s1 = s2
                   /\ Unwrap(returned') = filter_map(s2.draw_commands)
                   /\ state' = [s2 EXCEPT !.draw_commands = <<>>]]_vars

\* A drain has just force-finalized two in-progress entries, which it could
\* visit in either order.
C28_Witness ==
    /\ IsSome(returned)
    /\ streak = 1
    /\ VariantCount(Unwrap(returned), "Primitive") >= 2
    /\ Cardinality({b \in DOMAIN builders :
                       Count(Unwrap(returned), PrimitiveCmd(b)) = 1}) >= 2
    /\ DOMAIN state.drawing = {}

\* ---------------------------------------------------------------- C29
\* The calls of a pass that are draw calls.
DrawCalls(p) ==
    {i \in 1..Len(p) : p[i][1] \in {"draw_indirect", "draw_indexed_indirect"}}

\* Every resource DrawMeshIndirect::render looks up resolves: the mesh
\* instance, the GPU mesh, the item's components, the args buffer, the vertex
\* source (the override when there is one, else the mesh's vertex slice) and,
\* for an indexed mesh, the index slice.
AllResolve(w) ==
    /\ w.mesh_instance
    /\ IsSome(w.gpu_mesh)
    /\ IsSome(w.item_q)
    /\ Unwrap(w.item_q).indirect_buffer \in w.ssbos
    /\ IF IsSome(Unwrap(w.item_q).vertex_buffer)
       THEN Unwrap(Unwrap(w.item_q).vertex_buffer) \in w.ssbos
       ELSE w.vertex_slice
    /\ Unwrap(w.gpu_mesh) = "Indexed" => w.index_slice

\* C29: once DrawMeshIndirect::render has run, it has returned Success and
\* issued exactly one draw call if every resource resolves, and it has
\* returned Skip and issued no draw call otherwise; it never fails.
C29_DrawOrSkip ==
    Len(result) = 2 =>
       IF AllResolve(world)
       THEN result[2] = "Success" /\ Cardinality(DrawCalls(pass)) = 1
       ELSE result[2] = "Skip" /\ DrawCalls(pass) = {}

\* An indexed mesh whose index slice does not resolve while everything else
\* does: the vertex buffer was bound, nothing was drawn, the result is Skip.
C29_Witness ==
    /\ Len(result) = 2
    /\ world.gpu_mesh = Some("Indexed")
    /\ ~world.index_slice
    /\ Len(pass) = 2
    /\ pass[2][1] = "set_vertex_buffer"
    /\ result[2] = "Skip"

\* ---------------------------------------------------------------- C30
\* The vertex buffers the pass binds, in order: <<slot, source>>.
RECURSIVE VertexBuffers(_)
VertexBuffers(p) ==
    IF p = <<>>
    THEN <<>>
    ELSE IF Head(p)[1] = "set_vertex_buffer"
         THEN <<<<Head(p)[2], Head(p)[3]>>>> \o VertexBuffers(Tail(p))
         ELSE VertexBuffers(Tail(p))

\* The render has reached the choice of the vertex buffer: the mesh
\* instance, the GPU mesh, the item's components and the args buffer resolve.
ReachesVertexBuffer(w) ==
    /\ w.mesh_instance
    /\ IsSome(w.gpu_mesh)
    /\ IsSome(w.item_q)
    /\ Unwrap(w.item_q).indirect_buffer \in w.ssbos

\* C30: once DrawMeshIndirect::render has run past the lookup of the args
\* buffer, slot 0 holds the override buffer when the item carries an override
\* that resolves and the mesh's own vertex slice when it carries none; with
\* an override that does not resolve nothing is bound or drawn and the result
\* is Skip, whether or not the mesh's own slice resolves.
C30_VertexSource ==
    (Len(result) = 2 /\ ReachesVertexBuffer(world)) =>
       LET override == Unwrap(world.item_q).vertex_buffer
       IN IF IsSome(override)
          THEN IF Unwrap(override) \in world.ssbos
               THEN VertexBuffers(pass) = <<<<0, <<"ssbo", Unwrap(override)>>>>>>
               ELSE /\ VertexBuffers(pass) = <<>>
                    /\ DrawCalls(pass) = {}
                    /\ result[2] = "Skip"
          ELSE IF world.vertex_slice
               THEN VertexBuffers(pass) = <<<<0, <<"mesh_vertex_slice">>>>>>
               ELSE VertexBuffers(pass) = <<>> /\ result[2] = "Skip"

\* The item carries an override that does not resolve while the mesh's own
\* vertex slice does: the render has skipped without binding a vertex buffer.
C30_Witness ==
    /\ Len(result) = 2
    /\ ReachesVertexBuffer(world)
    /\ Unwrap(world.item_q).vertex_buffer = Some("verts")
    /\ "verts" \notin world.ssbos
    /\ world.vertex_slice
    /\ result[2] = "Skip"
    /\ VertexBuffers(pass) = <<>>

\* ---------------------------------------------------------------- C31
\* The names of the calls of a pass, in order.
CallNames(p) == [i \in 1..Len(p) |-> p[i][1]]

\* C31: a render that succeeds on an Indexed mesh binds the mesh's index
\* slice and then issues draw_indexed_indirect, and issues no draw_indirect;
\* on a NonIndexed mesh it issues draw_indirect and neither binds an index
\* buffer nor issues draw_indexed_indirect; every draw call of the pass is of
\* the kind the buffer info selects and reads the item's args buffer at
\* offset 0.
C31_IndexedSelectsDraw ==
    Len(result) = 2 =>
       /\ \A i \in DrawCalls(pass) :
             /\ pass[i][1] = "draw_indexed_indirect" <=>
                   world.gpu_mesh = Some("Indexed")
             /\ pass[i][1] = "draw_indirect" <=>
                   world.gpu_mesh = Some("NonIndexed")
             /\ pass[i][2] = <<"ssbo", Unwrap(world.item_q).indirect_buffer>>
             /\ pass[i][3] = 0
       /\ result[2] = "Success" =>
             IF world.gpu_mesh = Some("Indexed")
             THEN /\ Len(pass) >= 2
                  /\ SubSeq(CallNames(pass), Len(pass) - 1, Len(pass)) =
                        <<"set_index_buffer", "draw_indexed_indirect">>
                  /\ pass[Len(pass) - 1][2] = <<"mesh_index_slice">>
             ELSE /\ world.gpu_mesh = Some("NonIndexed")
                  /\ CallNames(pass)[Len(pass)] = "draw_indirect"
                  /\ \A i \in 1..Len(pass) : pass[i][1] # "set_index_buffer"

\* An indexed mesh was drawn: bind group, vertex buffer, index buffer and the
\* indexed indirect draw from the args buffer.
C31_Witness ==
    /\ result = <<"Success", "Success">>
    /\ world.gpu_mesh = Some("Indexed")
    /\ CallNames(pass) = <<"set_bind_group", "set_vertex_buffer",
                           "set_index_buffer", "draw_indexed_indirect">>
    /\ pass[4] = <<"draw_indexed_indirect", <<"ssbo", "args">>, 0>>

\* ---------------------------------------------------------------- C32
\* C32: dropping an Indirect marker that holds a captured primitive and an
\* args buffer, when a drain_commands has run since the capture (so that the
\* captured slot was force-finalized), does not fail and leaves no terminal
\* command for the captured primitive in the log of the new frame.
C32_StaleIndirectDropIsQuiet ==
    [][\A m \in DOMAIN indirects :
          (/\ IndirectDropped(m)
           /\ IsSome(indirects[m].primitive_index)
           /\ IsSome(indirects[m].indirect_buffer)
           /\ Count(calls, Unwrap(indirects[m].captured)) = 0)
          => /\ ~panicked'
             /\ \A i \in 1..Len(state'.draw_commands) :
                   (/\ IsSome(state'.draw_commands[i])
                    /\ IsTerminal(Unwrap(state'.draw_commands[i])))
                   => Unwrap(state'.draw_commands[i])[2] #
                         Unwrap(indirects[m].captured)]_vars

\* ---------------------------------------------------------------- C33
\* C33: the scope exit of a builder created before the latest drain_commands
\* changes neither the in-progress table nor the log of the new frame: it
\* commits and removes no primitive of a builder of the new frame and
\* overwrites no command.
C33_StaleBuilderDropIsInert ==
    [][\A b \in DOMAIN builders :
          (DrawingDrop(b) /\ Count(calls, b) = 0)
          => /\ state'.drawing = state.drawing
             /\ state'.draw_commands = state.draw_commands]_vars

\* ---------------------------------------------------------------- C34
\* C34: drain_commands leaves the instanced set empty, and the scope exit of
\* a builder of the current frame whose primitive is in progress commits it
\* as a plain Primitive at the builder's slot, also when an earlier frame
\* captured the same index for instancing.
C34_InstancedClearedByDrain ==
    /\ [][DrainStep => state'.instanced = {}]_vars
    /\ [][\A b \in DOMAIN builders :
             (/\ DrawingDrop(b)
              /\ Count(calls, b) = 1
              /\ builders[b].index \in DOMAIN state.drawing
              /\ state.drawing[builders[b].index] = b)
             => /\ builders[b].index < Len(state'.draw_commands)
                /\ state'.draw_commands[builders[b].index + 1] =
                      Some(PrimitiveCmd(b))]_vars

\* ---------------------------------------------------------------- C35
\* C35: in every sequence drain_commands returns, each terminal command is
\* preceded by a Context command and by a Material command of the same
\* sequence, in every frame.
C35_FrameStatesContextAndMaterial ==
    IsSome(returned) =>
       \A k \in 1..Len(Unwrap(returned)) :
          IsTerminal(Unwrap(returned)[k]) =>
             /\ \E i \in 1..(k - 1) : Variant(Unwrap(returned)[i]) = "Context"
             /\ \E j \in 1..(k - 1) : Variant(Unwrap(returned)[j]) = "Material"

\* ---------------------------------------------------------------- C36
\* Thread t is inside a call.
InCall(t) == pc[t].at # "idle"

\* The step of thread t takes a guard on the State, write or read.
TakesState(t) ==
    \/ lock' = t /\ lock # t
    \/ pc'[t].at = "text_read" /\ pc[t].at # "text_read"

\* The step of thread t takes the write guard on the intermediary state.
TakesIntermediary(t) ==
    /\ pc'[t].at \in {"text_scratch", "reset_scratch"}
    /\ pc[t].at \notin {"text_scratch", "reset_scratch"}

C37_ContextRestored ==
    [][\A loaded \in BOOLEAN, eval \in EvalResults(model) :
          (RunScript(loaded, eval) /\ panic_message' = None) =>
              /\ IsSome(outcome')
              /\ js_context'
              /\ Unwrap(outcome') \in {"not loaded", "eval error"} =>
                    model' = model]_vars

\* The evaluation failed on a model with a convertible field; the
\* JsContext is back in the world.
C37_Witness ==
    /\ outcome = Some("eval error")
    /\ js_context
    /\ panic_message = None
    /\ \E idx \in DOMAIN model.value : model.value[idx].field.kind = "Value"

\* ---------------------------------------------------------------- C38
\* C38: when write_js_model returns the error of a field without a
\* registered from-JS conversion, every field of the model has the value it
\* had before the call.
C38_WriteBackAllOrNothing ==
    [][\A loaded \in BOOLEAN, eval \in EvalResults(model) :
          (RunScript(loaded, eval) /\ outcome' = Some("write error")) =>
              model' = model]_vars

====
